---- MODULE Spec2Model ----
(***************************************************************************)
(* A model of the agent run-loop of next-ag (packages/core/src/Agent.ts,   *)
(* the revision kept as src/unnamed/part_005).                             *)
(*                                                                         *)
(* One Agent instance is modelled.  JavaScript runs the agent on a single  *)
(* thread, so every public method is one atomic action, and the async      *)
(* loop() advances from one `await` to the next in one atomic action: the  *)
(* only suspension points of loop() are `await this.run(...)` and the      *)
(* `for await (const part of stream)` header.  A call of loop() runs       *)
(* synchronously up to its first await, inside the public call that made   *)
(* it.  Several loop() invocations can be alive at once (abort() marks the *)
(* agent idle without stopping the suspended loop), so loops are kept in   *)
(* a table indexed by session id.                                          *)
(*                                                                         *)
(* Objects that the code shares by reference (the in-flight assistant      *)
(* message, pushed into context and mutated in place) live in `heap` and   *)
(* are referred to by their index, the object id.                          *)
(***************************************************************************)
EXTENDS Naturals, Sequences, FiniteSets, TLC

\* ------------------------------------------------------------------ bounds

\* The number of public method calls made on a fresh agent in one behaviour.
MaxCalls == 2

\* The number of public method calls made after one of the prepared
\* situations (see Prepared) in one behaviour, and after the first session
\* of SpecTurns has been started.
MaxMore == 1

\* The number of deltas in one reasoning or text part of the streams of
\* SpecDeltas.
MaxDeltas == 2

\* The number of prompts in each queue at the start of SpecQueues.
MaxQueue == 2

\* The number of prompts in each queue at the start of SpecBatches and of
\* SpecTurns.
MaxBatch == 1

\* ------------------------------------------------------------ program names

ABORT_REASON_STEER == "__steer__"

FIFO == "fifo"
ALL == "all"

SESSION_START == "session-start"
SESSION_END == "session-end"
TURN_START == "turn-start"
TURN_FINISH == "turn-finish"
TURN_ERROR == "turn-error"
TURN_ABORT == "turn-abort"
TURN_STEER == "turn-steer"
REASONING_START == "reasoning-start"
REASONING_UPDATE == "reasoning-update"
REASONING_END == "reasoning-end"
TEXT_START == "text-start"
TEXT_UPDATE == "text-update"
TEXT_END == "text-end"
TOOL_CALL == "tool-call"
TOOL_RESULT == "tool-result"
TOOL_ERROR == "tool-error"

START == "start"
RECOVER == "recover"
STEER == "steer"
FOLLOW_UP == "follow-up"

\* JavaScript's undefined, for the string-valued fields.
Undefined == "undefined"
\* An own property that a props patch does not have.
Absent == "absent"

\* ------------------------------------------------------------------ values

\* A message of the context.  oid is the object id of an assistant message
\* created by the loop (its content parts are heap[oid]); every other
\* message has oid 0 and carries its content in text: the string of a user
\* message, the output type of a tool result.  call is the toolCallId.
Msg(role, oid, text, call) == [role |-> role, oid |-> oid, text |-> text, call |-> call]

UserMsg(text) == Msg("user", 0, text, "")

\* A content part of an assistant message.
ContentPart(type, text) == [type |-> type, text |-> text]

\* An AgentPrompt: {prompt: string} or {messages: [...]}.
StrPrompt(s) == [form |-> "prompt", text |-> s, messages |-> <<>>]
MsgsPrompt(ms) == [form |-> "messages", text |-> "", messages |-> ms]

\* A part of the model collaborator's fullStream.  text is the delta text,
\* finishReason the reason of a finish part, reason that of an abort part,
\* call the toolCallId of a tool part.
StreamPart(type, text, finishReason, reason, call) ==
  [type |-> type, text |-> text, finishReason |-> finishReason, reason |-> reason, call |-> call]

P(type) == StreamPart(type, "", Undefined, Undefined, "")
TextDelta(t) == StreamPart("text-delta", t, Undefined, Undefined, "")
ReasoningDelta(t) == StreamPart("reasoning-delta", t, Undefined, Undefined, "")
Finish(r) == StreamPart("finish", "", r, Undefined, "")
AbortPart(r) == StreamPart("abort", "", Undefined, r, "")
ToolPart(type, id) == StreamPart(type, "", Undefined, Undefined, id)

\* A published AgentEvent.  message is the object id of the assistant
\* message the event carries (0: undefined, or a tool message).
Event(type, sessionId, turnId, message, startReason, prompts, finishReason, reason) ==
  [type |-> type, sessionId |-> sessionId, turnId |-> turnId, message |-> message,
   startReason |-> startReason, prompts |-> prompts, finishReason |-> finishReason,
   reason |-> reason]

\* ------------------------------------------------------------------ inputs

HiPrompt == StrPrompt("Hi")

StartPrompts == {HiPrompt}
SteerPrompts == {StrPrompt("S1"), StrPrompt("S2")}
FollowUpPrompts == {StrPrompt("F1"), StrPrompt("F2")}

\* Reasons a caller passes to abort(): none, a string, the reserved one.
AbortReasons == {Undefined, "user", ABORT_REASON_STEER}

\* Streams the model collaborator answers a call with.
HelloStream ==
  << P("start"), P("text-start"), TextDelta("Hel"), TextDelta("lo"), P("text-end"),
     Finish("stop") >>

\* Two steps: a tool call and its result, then the answer.
ToolStream ==
  << P("start"), ToolPart("tool-call", "c1"), ToolPart("tool-result", "c1"),
     P("finish-step"), P("text-start"), TextDelta("ok"), P("finish-step"), Finish("stop") >>

\* The output limit is hit in the middle of the answer.
LengthStream ==
  << P("start"), P("reasoning-start"), ReasoningDelta("hm"), P("text-start"),
     TextDelta("Hel"), Finish("length") >>

\* The provider fails before any content.
ErrorStream == << P("start"), P("error") >>

\* One step that ends in a failed tool call.
ToolErrorStream ==
  << P("start"), P("start-step"), ToolPart("tool-call", "c2"), ToolPart("tool-error", "c2"),
     P("finish-step"), Finish("tool-calls") >>

\* One step that ends in a tool call nothing in the stream answers.
ToolCallsStream ==
  << P("start"), ToolPart("tool-call", "c3"), P("finish-step"), Finish("tool-calls") >>

\* Protocol violations: a delta with no open part; a step and a finish with
\* no content at all.
BadDeltaStream == << P("start"), TextDelta("x") >>
EmptyStream == << P("start"), P("source"), P("finish-step"), Finish("stop") >>

Streams ==
  { HelloStream, ToolStream, LengthStream, ErrorStream, ToolErrorStream, ToolCallsStream,
    BadDeltaStream, EmptyStream }

\* Props patches a caller passes to updateProps().  providerOptions, tools,
\* topP and topK are handled by the code exactly as systemPrompt and
\* temperature are (hasOwnProperty, then assignment) and are left out.
Props(systemPrompt, temperature, steeringMode, followUpMode) ==
  [systemPrompt |-> systemPrompt, temperature |-> temperature,
   steeringMode |-> steeringMode, followUpMode |-> followUpMode]

\* A patch with no own property; also stands for pendingProps = undefined,
\* which the code treats the same way (nothing to apply).
NoProps == Props(Absent, Absent, Absent, Absent)

Patches ==
  { Props("sysB", Absent, Absent, Absent),
    Props(Absent, "0.9", ALL, Absent),
    Props(Absent, Absent, Absent, ALL) }

\* ------------------------------------------------------------------- state

VARIABLES
  config,                \* systemPrompt, temperature, steeringMode, followUpMode
  steeringPrompts,       \* this.steeringPrompts
  followUpPrompts,       \* this.followUpPrompts
  context,               \* this.context
  heap,                  \* content parts of the assistant messages, by object id
  acOwner,               \* session whose current model call this.abortController cancels (0: none)
  runningPromise,        \* session that created this.runningPromise (0: undefined)
  runningResolver,       \* session whose promise this.runningResolver resolves (0: undefined)
  resolved,              \* sessions whose running promise has been resolved
  currentStage,          \* this.currentStage
  pendingProps,          \* this.pendingProps
  lastTurnFinishReason,  \* this.lastTurnFinishReason
  loops,                 \* the invocations of loop(), by session id
  events,                \* the events published to the listeners, in order, by session id
  turns,                 \* number of turn ids drawn
  calls,                 \* the public calls made so far, each with its result
  budget                 \* number of public calls still to be made

vars ==
  << config, steeringPrompts, followUpPrompts, context, heap, acOwner, runningPromise,
     runningResolver, resolved, currentStage, pendingProps, lastTurnFinishReason, loops,
     events, turns, calls, budget >>

\* The whole state as one record, so that the methods can be written as
\* functions from state to state and composed the way the code calls them.
St ==
  [config |-> config, steeringPrompts |-> steeringPrompts,
   followUpPrompts |-> followUpPrompts, context |-> context, heap |-> heap,
   acOwner |-> acOwner, runningPromise |-> runningPromise,
   runningResolver |-> runningResolver, resolved |-> resolved,
   currentStage |-> currentStage, pendingProps |-> pendingProps,
   lastTurnFinishReason |-> lastTurnFinishReason, loops |-> loops, events |-> events,
   turns |-> turns, calls |-> calls, budget |-> budget]

Is(st) ==
  /\ config = st.config
  /\ steeringPrompts = st.steeringPrompts
  /\ followUpPrompts = st.followUpPrompts
  /\ context = st.context
  /\ heap = st.heap
  /\ acOwner = st.acOwner
  /\ runningPromise = st.runningPromise
  /\ runningResolver = st.runningResolver
  /\ resolved = st.resolved
  /\ currentStage = st.currentStage
  /\ pendingProps = st.pendingProps
  /\ lastTurnFinishReason = st.lastTurnFinishReason
  /\ loops = st.loops
  /\ events = st.events
  /\ turns = st.turns
  /\ calls = st.calls
  /\ budget = st.budget

Becomes(st) ==
  /\ config' = st.config
  /\ steeringPrompts' = st.steeringPrompts
  /\ followUpPrompts' = st.followUpPrompts
  /\ context' = st.context
  /\ heap' = st.heap
  /\ acOwner' = st.acOwner
  /\ runningPromise' = st.runningPromise
  /\ runningResolver' = st.runningResolver
  /\ resolved' = st.resolved
  /\ currentStage' = st.currentStage
  /\ pendingProps' = st.pendingProps
  /\ lastTurnFinishReason' = st.lastTurnFinishReason
  /\ loops' = st.loops
  /\ events' = st.events
  /\ turns' = st.turns
  /\ calls' = st.calls
  /\ budget' = st.budget

\* The local variables of one loop() invocation and its position.
\*   pc: "await" (suspended at the for-await), "done" (returned),
\*       "crashed" (an Error was thrown out of the async function)
\*   stream: the parts the current model call has yet to deliver
\*   script: the parts the collaborator chose for the current model call
\*   signal: the abort signal the current model call was given
\*   error: the message of the Error thrown out of the loop ("": none)
Loop(pc, pendingPrompts, turnStartReason) ==
  [pc |-> pc, pendingPrompts |-> pendingPrompts, turnStartReason |-> turnStartReason,
   turnMessage |-> 0, turnId |-> 0, stream |-> <<>>, script |-> <<>>,
   signal |-> [aborted |-> FALSE, reason |-> Undefined], error |-> ""]

\* A public call as its caller saw it: the method, its argument (a prompt,
\* or an abort reason, or props), what it returned ("true", "false", "void"
\* or "throw") and the last line it logged.
NoPrompt == StrPrompt("")

Call(op, prompt, reason, props, val, log) ==
  [op |-> op, prompt |-> prompt, reason |-> reason, props |-> props, val |-> val, log |-> log]

isRunning(st) == st.runningPromise # 0

\* --------------------------------------------------------- private methods

\* Mutant: the listeners see the new event ahead of the earlier ones.
emit_first(st, e) == [st EXCEPT !.currentStage = e.type, !.events[e.sessionId] = <<e>> \o @]

\* emit(e): record the stage, hand the event to every listener.
emit(st, e) == [st EXCEPT !.currentStage = e.type, !.events[e.sessionId] = Append(@, e)]

SessionEvent(type, l) == Event(type, l, 0, 0, Undefined, <<>>, Undefined, Undefined)

\* An event of turn loops[l].turnId carrying message m.
TurnEvent(st, l, type, m) ==
  Event(type, l, st.loops[l].turnId, m, Undefined, <<>>, Undefined, Undefined)

validStages ==
  {Undefined, SESSION_START, SESSION_END, TURN_FINISH, TURN_ERROR, TURN_ABORT, TURN_STEER}

\* {...a, ...b}: the own properties of b win.
MergeProps(a, b) == [f \in DOMAIN a |-> IF b[f] # Absent THEN b[f] ELSE a[f]]

\* The assignments of updateProps once it applies: a field the patch owns is
\* assigned (undefined included); a mode is assigned only when truthy.
ApplyProps(cfg, props) ==
  [systemPrompt |-> IF props.systemPrompt # Absent THEN props.systemPrompt ELSE cfg.systemPrompt,
   temperature |-> IF props.temperature # Absent THEN props.temperature ELSE cfg.temperature,
   steeringMode |->
     IF props.steeringMode \notin {Absent, Undefined} THEN props.steeringMode
     ELSE cfg.steeringMode,
   followUpMode |->
     IF props.followUpMode \notin {Absent, Undefined} THEN props.followUpMode
     ELSE cfg.followUpMode]

updateProps(st, props) ==
  IF isRunning(st) /\ st.currentStage \notin validStages
  THEN [st EXCEPT !.pendingProps = MergeProps(@, props)]
  ELSE [st EXCEPT !.config = ApplyProps(@, props), !.pendingProps = NoProps]

\* dequeue*Prompts return the batch; prompts is the batch, st the state after.
\* Mutant: in FIFO mode the newest steering prompt is taken.
dequeueSteeringPrompts_newest(st) ==
  IF st.config.steeringMode = FIFO
  THEN IF st.steeringPrompts = <<>>
       THEN [prompts |-> <<>>, st |-> st]
       ELSE [prompts |-> <<st.steeringPrompts[Len(st.steeringPrompts)]>>,
             st |-> [st EXCEPT !.steeringPrompts = SubSeq(@, 1, Len(@) - 1)]]
  ELSE [prompts |-> st.steeringPrompts, st |-> [st EXCEPT !.steeringPrompts = <<>>]]

dequeueSteeringPrompts(st) ==
  IF st.config.steeringMode = FIFO
  THEN IF st.steeringPrompts = <<>>
       THEN [prompts |-> <<>>, st |-> st]
       ELSE [prompts |-> <<Head(st.steeringPrompts)>>,
             st |-> [st EXCEPT !.steeringPrompts = Tail(@)]]
  ELSE [prompts |-> st.steeringPrompts, st |-> [st EXCEPT !.steeringPrompts = <<>>]]

\* Mutant: the follow-up queue is always drained whole.
dequeueFollowUpPrompts_all(st) ==
  [prompts |-> st.followUpPrompts, st |-> [st EXCEPT !.followUpPrompts = <<>>]]

dequeueFollowUpPrompts(st) ==
  IF st.config.followUpMode = FIFO
  THEN IF st.followUpPrompts = <<>>
       THEN [prompts |-> <<>>, st |-> st]
       ELSE [prompts |-> <<Head(st.followUpPrompts)>>,
             st |-> [st EXCEPT !.followUpPrompts = Tail(@)]]
  ELSE [prompts |-> st.followUpPrompts, st |-> [st EXCEPT !.followUpPrompts = <<>>]]

\* The messages one prompt adds to context: its messages spread in order,
\* or one user message holding its string.
PromptMessages(pending) ==
  IF pending.form = "messages" THEN pending.messages ELSE <<UserMsg(pending.text)>>

RECURSIVE BatchMessages(_)
BatchMessages(prompts) ==
  IF prompts = <<>> THEN <<>>
  ELSE PromptMessages(Head(prompts)) \o BatchMessages(Tail(prompts))

\* The reason an AbortSignal gets from abort() called without one: the
\* platform's DOMException, named here by its string.
AbortError == "AbortError: This operation was aborted"

\* signal.reason after abortController.abort(reason).
signalReason(reason) == IF reason = Undefined THEN AbortError ELSE reason

\* abortController.abort(reason) on the current controller.  An aborted
\* signal keeps its first reason.  The model call that was given the signal
\* answers a cancellation by delivering an abort part with the signal's
\* reason as its next and last part, unless its stream has already ended:
\* this is the collaborator's side of the cancellation, taken as given.
abortSignal(st, reason) ==
  LET o == st.acOwner IN
  IF o = 0 \/ st.loops[o].signal.aborted THEN st
  ELSE [st EXCEPT
         !.loops[o].signal = [aborted |-> TRUE, reason |-> signalReason(reason)],
         !.loops[o].stream =
           IF st.loops[o].pc = "await" /\ @ # <<>>
           THEN <<AbortPart(signalReason(reason))>> ELSE @]

\* Mutant: run() makes no AbortController of its own; the model call is given
\* the signal of the call before it, and a call given an aborted signal
\* delivers the abort part alone.
run_keepController(st, l, stream) ==
  [st EXCEPT !.acOwner = l,
             !.loops[l].stream =
               IF st.loops[l].signal.aborted
               THEN <<AbortPart(st.loops[l].signal.reason)>> ELSE stream,
             !.loops[l].script = stream,
             !.loops[l].pc = "await"]

\* run(): a fresh AbortController, then streamText(); the loop suspends on
\* the stream.  stream is the collaborator's answer to this call.
run(st, l, stream) ==
  [st EXCEPT !.acOwner = l,
             !.loops[l].signal = [aborted |-> FALSE, reason |-> Undefined],
             !.loops[l].stream = stream,
             !.loops[l].script = stream,
             !.loops[l].pc = "await"]

\* The end of loop(): session-end, release of the idle-wait.
exitLoop(st, l) ==
  LET st1 == emit(st, SessionEvent(SESSION_END, l)) IN
  [st1 EXCEPT !.resolved = IF st.runningResolver # 0 THEN @ \cup {st.runningResolver} ELSE @,
              !.runningResolver = 0,
              !.runningPromise = 0,
              !.loops[l].pc = "done"]

\* Mutant: the batch is put in front of context.
iterate_prepend(st, l, recover, stream) ==
  LET pendingPrompts == st.loops[l].pendingPrompts IN
  IF recover \/ Len(pendingPrompts) > 0
  THEN LET st1 == IF st.pendingProps # NoProps
                  THEN [updateProps(st, st.pendingProps) EXCEPT !.pendingProps = NoProps]
                  ELSE st
           st2 == [st1 EXCEPT !.context = BatchMessages(pendingPrompts) \o @]
       IN IF Len(st2.context) = 0
          THEN exitLoop(st2, l)
          ELSE run([st2 EXCEPT !.turns = @ + 1,
                               !.loops[l].turnId = st2.turns + 1,
                               !.loops[l].turnMessage = 0],
                   l, stream)
  ELSE exitLoop(st, l)

\* One pass from the `while` test of loop() to where it next suspends or
\* returns.  recover is the loop's recover flag at the test.
iterate(st, l, recover, stream) ==
  LET pendingPrompts == st.loops[l].pendingPrompts IN
  IF recover \/ Len(pendingPrompts) > 0
  THEN LET st1 == IF st.pendingProps # NoProps
                  THEN [updateProps(st, st.pendingProps) EXCEPT !.pendingProps = NoProps]
                  ELSE st
           st2 == [st1 EXCEPT !.context = @ \o BatchMessages(pendingPrompts)]
       IN IF Len(st2.context) = 0
          THEN exitLoop(st2, l)
          ELSE run([st2 EXCEPT !.turns = @ + 1,
                               !.loops[l].turnId = st2.turns + 1,
                               !.loops[l].turnMessage = 0],
                   l, stream)
  ELSE exitLoop(st, l)

\* Mutant: the start-cause of a session's first turn is "start" whatever the
\* recover flag.
loop_startCause(st, prompts, recover, stream) ==
  LET l == Len(st.loops) + 1
      st1 == [st EXCEPT !.runningPromise = l,
                        !.runningResolver = l,
                        !.events = Append(@, <<>>),
                        !.loops = Append(@, Loop("await", prompts, START))]
      st2 == emit(st1, SessionEvent(SESSION_START, l))
  IN iterate(st2, l, recover, stream)

\* loop(prompts, recover) up to its first suspension.
loop(st, prompts, recover, stream) ==
  LET l == Len(st.loops) + 1
      st1 == [st EXCEPT !.runningPromise = l,
                        !.runningResolver = l,
                        !.events = Append(@, <<>>),
                        !.loops = Append(@, Loop("await", prompts,
                                                 IF recover THEN RECOVER ELSE START))]
      st2 == emit(st1, SessionEvent(SESSION_START, l))
  IN iterate(st2, l, recover, stream)

\* ------------------------------------------------------ the stream folder

\* throw new Error(message) inside loop(): the async function rejects and
\* never resumes; nothing in the class catches it.
throw(st, l, message) == [st EXCEPT !.loops[l].pc = "crashed", !.loops[l].error = message]

\* parts.findLastIndex((c) => c.type === type), 1-based; 0 when none.
findLastIndex(parts, type) ==
  LET found == {i \in 1..Len(parts) : parts[i].type = type} IN
  IF found = {} THEN 0 ELSE CHOOSE i \in found : \A j \in found : j <= i

\* Mutant: every content part gets an assistant message of its own.
ensureTurnMessage_always(st, l) ==
  LET oid == Len(st.heap) + 1 IN
  [st EXCEPT !.heap = Append(@, <<>>),
             !.context = Append(@, Msg("assistant", oid, "", "")),
             !.loops[l].turnMessage = oid]

\* `if (!turnMessage) { turnMessage = {role: "assistant", content: []};
\* this.context.push(turnMessage); }`
ensureTurnMessage(st, l) ==
  IF st.loops[l].turnMessage # 0 THEN st
  ELSE LET oid == Len(st.heap) + 1 IN
       [st EXCEPT !.heap = Append(@, <<>>),
                  !.context = Append(@, Msg("assistant", oid, "", "")),
                  !.loops[l].turnMessage = oid]

\* case "reasoning-start" / "text-start": kind is "reasoning" or "text".
foldPartStart(st, l, kind, type) ==
  LET st1 == ensureTurnMessage(st, l)
      m == st1.loops[l].turnMessage
      st2 == [st1 EXCEPT !.heap[m] = Append(@, ContentPart(kind, ""))]
  IN emit(st2, TurnEvent(st2, l, type, m))

\* Mutant: the delta replaces the text of the part instead of extending it.
foldPartDelta_overwrite(st, l, part, kind, type) ==
  LET m == st.loops[l].turnMessage IN
  IF m = 0 THEN throw(st, l, part.type \o ", but content is not array")
  ELSE LET index == findLastIndex(st.heap[m], kind) IN
       IF index = 0 THEN throw(st, l, part.type \o ", but no " \o kind \o " found in content")
       ELSE LET st1 == [st EXCEPT !.heap[m][index].text = part.text] IN
            emit(st1, TurnEvent(st1, l, type, m))

\* case "reasoning-delta" / "text-delta".
foldPartDelta(st, l, part, kind, type) ==
  LET m == st.loops[l].turnMessage IN
  IF m = 0 THEN throw(st, l, part.type \o ", but content is not array")
  ELSE LET index == findLastIndex(st.heap[m], kind) IN
       IF index = 0 THEN throw(st, l, part.type \o ", but no " \o kind \o " found in content")
       ELSE LET st1 == [st EXCEPT !.heap[m][index].text = @ \o part.text] IN
            emit(st1, TurnEvent(st1, l, type, m))

\* case "reasoning-end" / "text-end".
foldPartEnd(st, l, part, type) ==
  LET m == st.loops[l].turnMessage IN
  IF m = 0 THEN throw(st, l, part.type \o ", but turnMessage not exists")
  ELSE emit(st, TurnEvent(st, l, type, m))

foldStart(st, l) ==
  LET lp == st.loops[l]
      st1 == [st EXCEPT !.lastTurnFinishReason = Undefined]
      st2 == emit(st1, Event(TURN_START, l, lp.turnId, 0, lp.turnStartReason,
                             lp.pendingPrompts, Undefined, Undefined))
  IN [st2 EXCEPT !.loops[l].pendingPrompts = <<>>]

foldToolCall(st, l, part) ==
  LET st1 == ensureTurnMessage(st, l)
      m == st1.loops[l].turnMessage
      st2 == [st1 EXCEPT !.heap[m] = Append(@, ContentPart("tool-call", part.call))]
  IN emit(st2, TurnEvent(st2, l, TOOL_CALL, m))

\* Mutant: a tool output ends the folding of the stream.
foldToolOutput_ends(st, l, part, outputType, type) ==
  LET st1 == [st EXCEPT !.context = Append(@, Msg("tool", 0, outputType, part.call)),
                        !.loops[l].stream = <<>>]
  IN emit(st1, TurnEvent(st1, l, type, 0))

\* case "tool-result" / "tool-error": outputType is "json" or "error-json".
foldToolOutput(st, l, part, outputType, type) ==
  LET st1 == [st EXCEPT !.context = Append(@, Msg("tool", 0, outputType, part.call))] IN
  emit(st1, TurnEvent(st1, l, type, 0))

foldFinishStep(st, l) ==
  IF Len(st.steeringPrompts) > 0 THEN abortSignal(st, ABORT_REASON_STEER) ELSE st

\* Mutant: the finish reason is recorded before the turn's message is tested.
foldFinish_recordFirst(st, l, part) ==
  LET m == st.loops[l].turnMessage
      st1 == [st EXCEPT !.lastTurnFinishReason = part.finishReason]
  IN IF m = 0 THEN throw(st1, l, "finish, but turnMessage not exists")
     ELSE emit(st1, Event(TURN_FINISH, l, st.loops[l].turnId, m, Undefined, <<>>,
                          part.finishReason, Undefined))

foldFinish(st, l, part) ==
  LET m == st.loops[l].turnMessage IN
  IF m = 0 THEN throw(st, l, "finish, but turnMessage not exists")
  ELSE LET st1 == [st EXCEPT !.lastTurnFinishReason = part.finishReason] IN
       emit(st1, Event(TURN_FINISH, l, st.loops[l].turnId, m, Undefined, <<>>,
                       part.finishReason, Undefined))

\* Mutant: an error part with no in-flight message throws.
foldError_needsMessage(st, l) ==
  IF st.loops[l].turnMessage = 0 THEN throw(st, l, "error, but turnMessage not exists")
  ELSE emit(st, TurnEvent(st, l, TURN_ERROR, st.loops[l].turnMessage))

foldError(st, l) == emit(st, TurnEvent(st, l, TURN_ERROR, st.loops[l].turnMessage))

foldAbort(st, l, part) ==
  LET m == st.loops[l].turnMessage IN
  IF part.reason = ABORT_REASON_STEER
  THEN IF m = 0 THEN throw(st, l, "abort for steering, but turnMessage not exists")
       ELSE IF Len(st.steeringPrompts) = 0
       THEN throw(st, l, "abort for steering, but no pending steering prompts")
       ELSE LET d == dequeueSteeringPrompts(st)
                st1 == [d.st EXCEPT !.loops[l].pendingPrompts = d.prompts,
                                    !.loops[l].turnStartReason = STEER]
            IN emit(st1, TurnEvent(st1, l, TURN_STEER, m))
  ELSE emit(st, Event(TURN_ABORT, l, st.loops[l].turnId, m, Undefined, <<>>, Undefined,
                      part.reason))

\* The switch of loop() on part.type.
fold(st, l, part) ==
  CASE part.type = "start" -> foldStart(st, l)
    [] part.type = "start-step" -> st
    [] part.type = "reasoning-start" -> foldPartStart(st, l, "reasoning", REASONING_START)
    [] part.type = "reasoning-delta" -> foldPartDelta(st, l, part, "reasoning", REASONING_UPDATE)
    [] part.type = "reasoning-end" -> foldPartEnd(st, l, part, REASONING_END)
    [] part.type = "text-start" -> foldPartStart(st, l, "text", TEXT_START)
    [] part.type = "text-delta" -> foldPartDelta(st, l, part, "text", TEXT_UPDATE)
    [] part.type = "text-end" -> foldPartEnd(st, l, part, TEXT_END)
    [] part.type = "tool-call" -> foldToolCall(st, l, part)
    [] part.type = "tool-result" -> foldToolOutput(st, l, part, "json", TOOL_RESULT)
    [] part.type = "tool-error" -> foldToolOutput(st, l, part, "error-json", TOOL_ERROR)
    [] part.type = "finish-step" -> foldFinishStep(st, l)
    [] part.type = "finish" -> foldFinish(st, l, part)
    [] part.type = "error" -> foldError(st, l)
    [] part.type = "abort" -> foldAbort(st, l, part)
    [] OTHER -> st

\* Mutant: the start-cause is left as it was when a follow-up batch is taken.
afterStream_keepCause(st, l, stream) ==
  IF Len(st.loops[l].pendingPrompts) = 0
  THEN LET d == dequeueFollowUpPrompts(st) IN
       iterate([d.st EXCEPT !.loops[l].pendingPrompts = d.prompts], l, FALSE, stream)
  ELSE iterate(st, l, FALSE, stream)

\* After the stream has ended: the choice of the next batch, then the
\* `while` test again.
afterStream(st, l, stream) ==
  IF Len(st.loops[l].pendingPrompts) = 0
  THEN LET d == dequeueFollowUpPrompts(st) IN
       iterate([d.st EXCEPT !.loops[l].pendingPrompts = d.prompts,
                            !.loops[l].turnStartReason = FOLLOW_UP],
               l, FALSE, stream)
  ELSE iterate(st, l, FALSE, stream)

\* loop l resumes at the for-await: the stream delivers its next part, which
\* is folded, or it has ended.  stream is the collaborator's answer should
\* the loop make its next model call.
resume(st, l, stream) ==
  LET rest == st.loops[l].stream IN
  IF rest = <<>> THEN afterStream(st, l, stream)
  ELSE fold([st EXCEPT !.loops[l].stream = Tail(rest)], l, Head(rest))

\* ---------------------------------------------------------- public methods

\* What every public call leaves behind for the caller to see.
returns(st, call) == [st EXCEPT !.calls = Append(@, call), !.budget = @ - 1]

\* Mutant: start() without the isRunning test.
start_unguarded(st, prompt, stream) ==
  LET st1 == [st EXCEPT !.steeringPrompts = <<>>, !.followUpPrompts = <<>>] IN
  returns(loop(st1, <<prompt>>, FALSE, stream),
          Call("start", prompt, Undefined, NoProps, "true", "start"))

\* Mutant: start() leaves the queues as it finds them.
start_keepQueues(st, prompt, stream) ==
  IF isRunning(st)
  THEN returns(st, Call("start", prompt, Undefined, NoProps, "false",
                        "start, skipped, waitForIdle() or abort() first"))
  ELSE returns(loop(st, <<prompt>>, FALSE, stream),
               Call("start", prompt, Undefined, NoProps, "true", "start"))

start(st, prompt, stream) ==
  IF isRunning(st)
  THEN returns(st, Call("start", prompt, Undefined, NoProps, "false",
                        "start, skipped, waitForIdle() or abort() first"))
  ELSE LET st1 == [st EXCEPT !.steeringPrompts = <<>>, !.followUpPrompts = <<>>] IN
       returns(loop(st1, <<prompt>>, FALSE, stream),
               Call("start", prompt, Undefined, NoProps, "true", "start"))

RecoverCall(val, log) == Call("recover", NoPrompt, Undefined, NoProps, val, log)

\* Mutant: the re-generate branch tests for "stop" alone.
recover_stopOnly(st, stream) ==
  IF isRunning(st)
  THEN returns(st, RecoverCall("false", "recover, skipped, waitForIdle() or abort() first"))
  ELSE IF Len(st.context) = 0
  THEN returns(st, RecoverCall("false", "recover, skipped, no context to recover"))
  ELSE IF st.context[Len(st.context)].role # "assistant"
  THEN returns(loop(st, <<>>, TRUE, stream),
               RecoverCall("true", "recover, retry with current context"))
  ELSE IF st.lastTurnFinishReason # "stop"
  THEN returns(loop([st EXCEPT !.context = SubSeq(@, 1, Len(@) - 1)], <<>>, TRUE, stream),
               RecoverCall("true", "recover, re-generate last turn with current context"))
  ELSE LET ds == dequeueSteeringPrompts(st) IN
       IF Len(ds.prompts) > 0
       THEN returns(loop(ds.st, ds.prompts, TRUE, stream),
                    RecoverCall("true", "recover, recover with pending steering prompts"))
       ELSE LET df == dequeueFollowUpPrompts(ds.st) IN
            IF Len(df.prompts) > 0
            THEN returns(loop(df.st, df.prompts, TRUE, stream),
                         RecoverCall("true", "recover, recover with pending follow-up prompts"))
            ELSE returns(df.st, RecoverCall("false", "recover, no pending prompts to recover"))

\* Mutant: the re-generate branch leaves the trailing assistant message in
\* context.
recover_keepLast(st, stream) ==
  IF isRunning(st)
  THEN returns(st, RecoverCall("false", "recover, skipped, waitForIdle() or abort() first"))
  ELSE IF Len(st.context) = 0
  THEN returns(st, RecoverCall("false", "recover, skipped, no context to recover"))
  ELSE IF st.context[Len(st.context)].role # "assistant"
  THEN returns(loop(st, <<>>, TRUE, stream),
               RecoverCall("true", "recover, retry with current context"))
  ELSE IF st.lastTurnFinishReason # "stop" /\ st.lastTurnFinishReason # "tool-calls"
  THEN returns(loop(st, <<>>, TRUE, stream),
               RecoverCall("true", "recover, re-generate last turn with current context"))
  ELSE LET ds == dequeueSteeringPrompts(st) IN
       IF Len(ds.prompts) > 0
       THEN returns(loop(ds.st, ds.prompts, TRUE, stream),
                    RecoverCall("true", "recover, recover with pending steering prompts"))
       ELSE LET df == dequeueFollowUpPrompts(ds.st) IN
            IF Len(df.prompts) > 0
            THEN returns(loop(df.st, df.prompts, TRUE, stream),
                         RecoverCall("true", "recover, recover with pending follow-up prompts"))
            ELSE returns(df.st, RecoverCall("false", "recover, no pending prompts to recover"))

recover(st, stream) ==
  IF isRunning(st)
  THEN returns(st, RecoverCall("false", "recover, skipped, waitForIdle() or abort() first"))
  ELSE IF Len(st.context) = 0
  THEN returns(st, RecoverCall("false", "recover, skipped, no context to recover"))
  ELSE IF st.context[Len(st.context)].role # "assistant"
  THEN returns(loop(st, <<>>, TRUE, stream),
               RecoverCall("true", "recover, retry with current context"))
  ELSE IF st.lastTurnFinishReason # "stop" /\ st.lastTurnFinishReason # "tool-calls"
  THEN returns(loop([st EXCEPT !.context = SubSeq(@, 1, Len(@) - 1)], <<>>, TRUE, stream),
               RecoverCall("true", "recover, re-generate last turn with current context"))
  ELSE LET ds == dequeueSteeringPrompts(st) IN
       IF Len(ds.prompts) > 0
       THEN returns(loop(ds.st, ds.prompts, TRUE, stream),
                    RecoverCall("true", "recover, recover with pending steering prompts"))
       ELSE LET df == dequeueFollowUpPrompts(ds.st) IN
            IF Len(df.prompts) > 0
            THEN returns(loop(df.st, df.prompts, TRUE, stream),
                         RecoverCall("true", "recover, recover with pending follow-up prompts"))
            ELSE returns(df.st, RecoverCall("false", "recover, no pending prompts to recover"))

\* Mutant: steer() without the isRunning test.
steer_unguarded(st, prompt) ==
  returns([st EXCEPT !.steeringPrompts = Append(@, prompt)],
          Call("steer", prompt, Undefined, NoProps, "true", "steer"))

steer(st, prompt) ==
  IF ~isRunning(st)
  THEN returns(st, Call("steer", prompt, Undefined, NoProps, "false",
                        "steer, skipped, use start() instead"))
  ELSE returns([st EXCEPT !.steeringPrompts = Append(@, prompt)],
               Call("steer", prompt, Undefined, NoProps, "true", "steer"))

\* Mutant: followUp() without the isRunning test.
followUp_unguarded(st, prompt) ==
  returns([st EXCEPT !.followUpPrompts = Append(@, prompt)],
          Call("followUp", prompt, Undefined, NoProps, "true", "followUp"))

followUp(st, prompt) ==
  IF ~isRunning(st)
  THEN returns(st, Call("followUp", prompt, Undefined, NoProps, "false",
                        "followUp, skipped, use start() instead"))
  ELSE returns([st EXCEPT !.followUpPrompts = Append(@, prompt)],
               Call("followUp", prompt, Undefined, NoProps, "true", "followUp"))

\* Mutant: abort() without the test for the reserved reason.
abort_unchecked(st, reason) ==
  LET st1 == abortSignal(st, reason) IN
  returns([st1 EXCEPT
            !.resolved = IF st.runningResolver # 0 THEN @ \cup {st.runningResolver} ELSE @,
            !.runningResolver = 0,
            !.runningPromise = 0],
          Call("abort", NoPrompt, reason, NoProps, "void", "abort"))

abort(st, reason) ==
  IF reason = ABORT_REASON_STEER
  THEN returns(st, Call("abort", NoPrompt, reason, NoProps, "throw",
                        "abort reason can't be __steer__, which is reserved for steer()"))
  ELSE LET st1 == abortSignal(st, reason) IN
       returns([st1 EXCEPT
                 !.resolved = IF st.runningResolver # 0 THEN @ \cup {st.runningResolver} ELSE @,
                 !.runningResolver = 0,
                 !.runningPromise = 0],
               Call("abort", NoPrompt, reason, NoProps, "void", "abort"))

\* Mutant: reset() leaves context as it is.
reset_keepContext(st) ==
  IF isRunning(st)
  THEN returns(st, Call("reset", NoPrompt, Undefined, NoProps, "false",
                        "reset, skipped, waitForIdle() or abort() first"))
  ELSE returns([st EXCEPT !.currentStage = Undefined,
                          !.lastTurnFinishReason = Undefined,
                          !.steeringPrompts = <<>>,
                          !.followUpPrompts = <<>>],
               Call("reset", NoPrompt, Undefined, NoProps, "true", "reset"))

reset(st) ==
  IF isRunning(st)
  THEN returns(st, Call("reset", NoPrompt, Undefined, NoProps, "false",
                        "reset, skipped, waitForIdle() or abort() first"))
  ELSE returns([st EXCEPT !.currentStage = Undefined,
                          !.lastTurnFinishReason = Undefined,
                          !.steeringPrompts = <<>>,
                          !.followUpPrompts = <<>>,
                          !.context = <<>>],
               Call("reset", NoPrompt, Undefined, NoProps, "true", "reset"))

\* waitForIdle(): the running promise, or (0) a promise already resolved.
\* Promise l, made by loop l, is resolved once l is in st.resolved.
waitForIdle(st) == st.runningPromise

\* ------------------------------------------------------------ the machine

\* The agent as its constructor leaves it; sm and fm are the constructor
\* props steeringMode and followUpMode.
Fresh(sm, fm) ==
  [config |-> Props(Undefined, Undefined, sm, fm), steeringPrompts |-> <<>>,
   followUpPrompts |-> <<>>, context |-> <<>>, heap |-> <<>>, acOwner |-> 0,
   runningPromise |-> 0, runningResolver |-> 0, resolved |-> {},
   currentStage |-> Undefined, pendingProps |-> NoProps,
   lastTurnFinishReason |-> Undefined, loops |-> <<>>, events |-> <<>>, turns |-> 0,
   calls |-> <<>>, budget |-> MaxCalls]

Modes == {FIFO, ALL}

\* Both modes are FIFO, or both ALL, at construction; updateProps changes
\* them one by one.
Init == \E m \in Modes : Is(Fresh(m, m))

Start(prompt, stream) == budget > 0 /\ Becomes(start(St, prompt, stream))

Recover(stream) == budget > 0 /\ Becomes(recover(St, stream))

Steer(prompt) == budget > 0 /\ Becomes(steer(St, prompt))

FollowUp(prompt) == budget > 0 /\ Becomes(followUp(St, prompt))

Abort(reason) == budget > 0 /\ Becomes(abort(St, reason))

Reset == budget > 0 /\ Becomes(reset(St))

UpdateProps(props) ==
  budget > 0 /\ Becomes(returns(updateProps(St, props),
                            Call("updateProps", NoPrompt, Undefined, props, "void", "")))

\* A suspended loop is resumed by the stream it awaits.
Resume(l) ==
  /\ loops[l].pc = "await"
  /\ IF loops[l].stream # <<>>
     THEN Becomes(resume(St, l, <<>>))
     ELSE \E stream \in Streams : Becomes(resume(St, l, stream))

Next ==
  \/ \E prompt \in StartPrompts, stream \in Streams : Start(prompt, stream)
  \/ \E stream \in Streams : Recover(stream)
  \/ \E prompt \in SteerPrompts : Steer(prompt)
  \/ \E prompt \in FollowUpPrompts : FollowUp(prompt)
  \/ \E reason \in AbortReasons : Abort(reason)
  \/ Reset
  \/ \E props \in Patches : UpdateProps(props)
  \/ \E l \in 1..Len(loops) : Resume(l)

Spec == Init /\ [][Next]_vars

\* ------------------------------------------------- prepared situations

\* Loop l consumes what is left of its current stream, part by part.
RECURSIVE drain(_, _)
drain(st, l) ==
  IF st.loops[l].pc = "await" /\ st.loops[l].stream # <<>>
  THEN drain(resume(st, l, <<>>), l)
  ELSE st

S1 == StrPrompt("S1")
F1 == StrPrompt("F1")

\* A session has just been started and a follow-up (a steering prompt)
\* accepted; the first part of the first stream is yet to arrive.
midFollowUp(sm, fm, stream) == followUp(start(Fresh(sm, fm), HiPrompt, stream), F1)
midSteer(sm, fm, stream) == steer(start(Fresh(sm, fm), HiPrompt, stream), S1)

\* The session has run to its end with a steering prompt queued during a
\* first turn that had no step boundary left: the agent is idle with the
\* prompt still queued.
endedSteer(stream) ==
  resume(drain(steer(start(Fresh(FIFO, FIFO), HiPrompt, stream), S1), 1), 1, <<>>)
endedNoPrompts(stream) ==
  resume(drain(start(Fresh(FIFO, FIFO), HiPrompt, stream), 1), 1, <<>>)

\* The first turn has been folded to its last part with the given prompts
\* queued meanwhile, and the caller has then called abort(): the agent is
\* idle, the loop has yet to see its stream end.
abortedFollowUp(stream) ==
  abort(drain(followUp(start(Fresh(FIFO, FIFO), HiPrompt, stream), F1), 1), "user")

\* Loop l folds the parts of its stream until its model call is cancelled
\* or the stream has nothing left.
RECURSIVE untilCancelled(_, _)
untilCancelled(st, l) ==
  IF st.loops[l].pc = "await" /\ st.loops[l].stream # <<>> /\ ~st.loops[l].signal.aborted
  THEN untilCancelled(resume(st, l, <<>>), l)
  ELSE st

\* The checkpoint of the first turn has cancelled the model call for the
\* queued steering prompt, and the caller has called abort() before the
\* loop has received the abort part.
abortedSteer(stream) ==
  abort(untilCancelled(steer(start(Fresh(FIFO, FIFO), HiPrompt, stream), S1), 1), "user")

\* The caller has called abort() right after start(), before the loop has
\* received any part.
abortedAtOnce(stream) == abort(start(Fresh(FIFO, FIFO), HiPrompt, stream), "user")

\* Situations the agent gets into within four public calls, from which
\* SpecMid goes on.
Prepared ==
  {midFollowUp(m, m, stream) : m \in Modes, stream \in {HelloStream, ToolStream}}
  \cup {midSteer(m, m, stream) : m \in Modes, stream \in {HelloStream, ToolStream}}
  \cup {endedSteer(stream) : stream \in {HelloStream, LengthStream, ErrorStream}}
  \cup {endedNoPrompts(stream) : stream \in {HelloStream, ToolCallsStream}}
  \cup {abortedFollowUp(stream) :
          stream \in {HelloStream, ToolCallsStream, LengthStream, ErrorStream}}
  \cup {abortedSteer(ToolStream), abortedAtOnce(HelloStream)}

InitMid == \E st \in Prepared : Is([st EXCEPT !.budget = MaxMore])

SpecMid == InitMid /\ [][Next]_vars

\* ------------------------------------------------ streams of many deltas

\* The sequences of at most n elements of S.
SeqsUpTo(S, n) == UNION {[1..k -> S] : k \in 0..n}

DeltaPayloads == {"a", "b"}

\* A stream of one reasoning part and one text part, whose deltas carry the
\* payloads rs and ts.
DeltaStream(rs, ts) ==
  << P("start"), P("reasoning-start") >>
  \o [i \in 1..Len(rs) |-> ReasoningDelta(rs[i])]
  \o << P("reasoning-end"), P("text-start") >>
  \o [i \in 1..Len(ts) |-> TextDelta(ts[i])]
  \o << P("text-end"), Finish("stop") >>

DeltaStreams ==
  {DeltaStream(rs, ts) : rs \in SeqsUpTo(DeltaPayloads, MaxDeltas),
                         ts \in SeqsUpTo(DeltaPayloads, MaxDeltas)}

\* A session has just been started, and the model answers it with one of
\* the streams of many deltas; the loop then folds that stream.
InitDeltas == \E stream \in DeltaStreams : Is(start(Fresh(FIFO, FIFO), HiPrompt, stream))

NextDeltas == \E l \in 1..Len(loops) : Resume(l)

SpecDeltas == InitDeltas /\ [][NextDeltas]_vars

\* ------------------------------------------------------ queues of prompts

RECURSIVE steerAll(_, _)
steerAll(st, prompts) ==
  IF prompts = <<>> THEN st ELSE steerAll(steer(st, Head(prompts)), Tail(prompts))

RECURSIVE followUpAll(_, _)
followUpAll(st, prompts) ==
  IF prompts = <<>> THEN st ELSE followUpAll(followUp(st, Head(prompts)), Tail(prompts))

\* A session has just been started and the caller has queued the steering
\* prompts qs and the follow-up prompts qf.
queued(sm, fm, qs, qf) ==
  followUpAll(steerAll(start(Fresh(sm, fm), HiPrompt, HelloStream), qs), qf)

InitQueues ==
  \E sm \in Modes, fm \in Modes :
    \E qs \in SeqsUpTo(SteerPrompts, MaxQueue), qf \in SeqsUpTo(FollowUpPrompts, MaxQueue) :
      Is(queued(sm, fm, qs, qf))

\* The two dequeue methods, each applied on its own.
DequeueSteering ==
  LET d == dequeueSteeringPrompts(St) IN
  Len(d.prompts) <= Len(steeringPrompts) /\ Becomes(d.st)

DequeueFollowUp ==
  LET d == dequeueFollowUpPrompts(St) IN
  Len(d.prompts) <= Len(followUpPrompts) /\ Becomes(d.st)

NextQueues == DequeueSteering \/ DequeueFollowUp

SpecQueues == InitQueues /\ [][NextQueues]_vars

\* ------------------------------------------------------ batches of prompts

\* A prompt given as an array of messages, and one given as an empty array.
M12 == MsgsPrompt(<<UserMsg("M1"), UserMsg("M2")>>)
M0 == MsgsPrompt(<<>>)

BatchStartPrompts == {HiPrompt, M12, M0}
BatchSteerPrompts == {S1, M12}
BatchFollowUpPrompts == {F1, M12}

\* Streams with and without a step boundary, one cut short by the output
\* limit, and one that fails.
BatchStreams == {HelloStream, ToolStream, LengthStream, ErrorStream}

\* A session has just been started with a prompt of either form and the
\* caller has queued prompts of either form.
InitBatches ==
  \E m \in Modes, prompt \in BatchStartPrompts, stream \in BatchStreams :
    \E qs \in SeqsUpTo(BatchSteerPrompts, MaxBatch),
       qf \in SeqsUpTo(BatchFollowUpPrompts, MaxBatch) :
      Is(followUpAll(steerAll(start(Fresh(m, m), prompt, stream), qs), qf))

\* A suspended loop is resumed by the stream it awaits; the collaborator
\* answers a new model call with one of BatchStreams.
Continue(l) ==
  /\ loops[l].pc = "await"
  /\ IF loops[l].stream # <<>>
     THEN Becomes(resume(St, l, <<>>))
     ELSE \E stream \in BatchStreams : Becomes(resume(St, l, stream))

NextBatches == \E l \in 1..Len(loops) : Continue(l)

SpecBatches == InitBatches /\ [][NextBatches]_vars

\* ------------------------------ batches, with one more call by the caller

\* A prompt whose array ends with an assistant message written by the caller.
MA == MsgsPrompt(<<UserMsg("M1"), Msg("assistant", 0, "A", "")>>)

TurnStartPrompts == BatchStartPrompts \cup {MA}

\* As InitBatches, with MaxMore public calls still to be made.
InitTurns ==
  \E m \in Modes, prompt \in TurnStartPrompts, stream \in BatchStreams :
    \E qs \in SeqsUpTo(BatchSteerPrompts, MaxBatch),
       qf \in SeqsUpTo(BatchFollowUpPrompts, MaxBatch) :
      Is([followUpAll(steerAll(start(Fresh(m, m), prompt, stream), qs), qf)
            EXCEPT !.budget = MaxMore])

\* The loops go on as in SpecBatches while the caller cancels the model
\* call, or begins a session again with recover() or start().
NextTurns ==
  \/ \E l \in 1..Len(loops) : Continue(l)
  \/ \E reason \in AbortReasons : Abort(reason)
  \/ \E stream \in BatchStreams : Recover(stream)
  \/ \E prompt \in {HiPrompt, M12} : Start(prompt, HelloStream)

SpecTurns == InitTurns /\ [][NextTurns]_vars

\* ----------------------------------------- streams that break the protocol

\* What the stream has delivered when the part in question arrives: nothing
\* but start, or an open reasoning part, an open text part, a tool call.
ViolationPrefixes ==
  { <<P("start")>>, <<P("start"), P("reasoning-start")>>, <<P("start"), P("text-start")>>,
    <<P("start"), ToolPart("tool-call", "c1")>> }

\* The parts whose fold tests the in-flight message, and the error part,
\* whose fold carries the in-flight message without testing it.
ViolationParts ==
  { TextDelta("x"), ReasoningDelta("x"), P("text-end"), P("reasoning-end"), Finish("stop"),
    P("error") }

\* The part in question is followed by parts that would publish events.
ViolationStreams ==
  { prefix \o <<part>> \o <<P("text-start"), Finish("stop")>> :
      prefix \in ViolationPrefixes, part \in ViolationParts }

\* A session has just been started, a follow-up prompt is queued, and the
\* model answers the first call with one of ViolationStreams.
InitViolations ==
  \E m \in Modes, stream \in ViolationStreams :
    Is(followUp(start(Fresh(m, m), HiPrompt, stream), F1))

NextViolations == \E l \in 1..Len(loops) : Continue(l)

SpecViolations == InitViolations /\ [][NextViolations]_vars

\* ------------------------------------------------------------- properties

LastCall == calls[Len(calls)]

EventTypes(es) == [i \in 1..Len(es) |-> es[i].type]

IsPrefix(a, b) == Len(a) <= Len(b) /\ a = SubSeq(b, 1, Len(a))

AssistantCount(ctx) == Cardinality({i \in 1..Len(ctx) : ctx[i].role = "assistant"})

HelloEvents ==
  << SESSION_START, TURN_START, TEXT_START, TEXT_UPDATE, TEXT_UPDATE, TEXT_END, TURN_FINISH,
     SESSION_END >>

\* start({prompt: "Hi"}) on the fresh agent is the only public call made,
\* and the model answers it with HelloStream.
HelloScenario ==
  /\ Len(calls) = 1
  /\ calls[1].op = "start" /\ calls[1].prompt = HiPrompt
  /\ loops[1].script = HelloStream

\* C1: in the Hello scenario the events published are, at every moment, an
\* initial part of [session-start, turn-start, text-start, text-update,
\* text-update, text-end, turn-finish, session-end]; the loop returns having
\* published all of them, and context then holds the user message and exactly
\* one assistant message whose content is the single text part "Hello".
C1_HelloScenario ==
  HelloScenario =>
    /\ IsPrefix(EventTypes(events[1]), HelloEvents)
    /\ loops[1].pc = "done" =>
         /\ EventTypes(events[1]) = HelloEvents
         /\ AssistantCount(context) = 1
         /\ context = <<UserMsg("Hi"), Msg("assistant", 1, "", "")>>
         /\ heap[1] = <<ContentPart("text", "Hello")>>
         /\ Len(loops) = 1 /\ turns = 1

C1_Witness ==
  HelloScenario /\ loops[1].pc = "done" /\ heap[1] = <<ContentPart("text", "Hello")>>

\* The agent state of record a is that of record b: all but the record of
\* calls.
SameAgent(a, b) ==
  \A f \in DOMAIN a : f \notin {"calls", "budget"} => a[f] = b[f]

Result(st) == st.calls[Len(st.calls)].val

\* C2: in every reachable state where the agent is running, start(prompt)
\* returns false and changes nothing: queues, context, events (no
\* session-start) and all other agent state are as before the call.
C2_StartWhileRunning ==
  isRunning(St) =>
    \A prompt \in StartPrompts, stream \in Streams :
      LET after == start(St, prompt, stream) IN
      Result(after) = "false" /\ SameAgent(after, St)

C2_Witness ==
  /\ calls # <<>> /\ LastCall.op = "start" /\ LastCall.val = "false"
  /\ isRunning(St) /\ context # <<>>

\* C3: in every reachable state where the agent is not running, steer(prompt)
\* and followUp(prompt) return false and leave both queues, and all other
\* agent state, unchanged.
C3_PromptWhileIdle ==
  ~isRunning(St) =>
    \A prompt \in SteerPrompts \cup FollowUpPrompts :
      LET steered == steer(St, prompt)
          followed == followUp(St, prompt)
      IN /\ Result(steered) = "false" /\ SameAgent(steered, St)
         /\ Result(followed) = "false" /\ SameAgent(followed, St)

C3_Witness ==
  /\ calls # <<>> /\ LastCall.op \in {"steer", "followUp"} /\ LastCall.val = "false"
  /\ ~isRunning(St) /\ loops # <<>>

\* C4: in every reachable state, abort() with the reserved steering reason
\* throws and has no effect: no signal is aborted, no stream is cut, the
\* running promise and its resolver, the queues and the context are as
\* before the call.
C4_AbortReserved ==
  LET after == abort(St, ABORT_REASON_STEER) IN
  Result(after) = "throw" /\ SameAgent(after, St)

C4_Witness ==
  /\ calls # <<>> /\ LastCall.op = "abort" /\ LastCall.reason = ABORT_REASON_STEER
  /\ LastCall.val = "throw"
  /\ isRunning(St) /\ \E l \in 1..Len(loops) : loops[l].pc = "await" /\ loops[l].stream # <<>>

Loops == 1..Len(loops)

\* Loop l is suspended with part as the next part its stream delivers.
NextPart(l, type) ==
  loops[l].pc = "await" /\ loops[l].stream # <<>> /\ Head(loops[l].stream).type = type

\* What a dequeue takes from queue under mode, and what it leaves.
Batch(queue, mode) ==
  IF mode = ALL THEN queue ELSE IF queue = <<>> THEN <<>> ELSE <<Head(queue)>>

Rest(queue, mode) == IF mode = ALL \/ queue = <<>> THEN <<>> ELSE Tail(queue)

\* The cause and the batch of every turn-start among the events es, in order.
IsTurnStart(e) == e.type = TURN_START

TurnStarts(es) ==
  LET ts == SelectSeq(es, IsTurnStart) IN
  [i \in 1..Len(ts) |-> [startReason |-> ts[i].startReason, prompts |-> ts[i].prompts]]

Published(es, type) == \E i \in 1..Len(es) : es[i].type = type

\* C5: no follow-up prompt is taken as the next batch while the steering
\* queue is non-empty: whenever a loop that had no batch pending takes a
\* non-empty batch with start-cause "follow-up", the steering queue is empty.
C5_SteeringBeforeFollowUp ==
  [][\A l \in Loops :
       ( /\ loops[l].pendingPrompts = <<>>
         /\ loops'[l].pendingPrompts # <<>>
         /\ loops'[l].turnStartReason = FOLLOW_UP )
       => steeringPrompts = <<>>]_vars

\* C6, the checkpoint: when the loop whose model call is the current one
\* folds a finish-step, the call's signal is aborted, with the reserved
\* reason, if and only if the steering queue is non-empty, and what is left
\* of the call's stream is then the abort part carrying that reason.
C6_Checkpoint ==
  \A l \in Loops :
    (NextPart(l, "finish-step") /\ acOwner = l) =>
      LET after == resume(St, l, <<>>)
          left == Tail(loops[l].stream)
      IN IF steeringPrompts # <<>>
         THEN /\ after.loops[l].signal = [aborted |-> TRUE, reason |-> ABORT_REASON_STEER]
              /\ after.loops[l].stream =
                   IF left = <<>> THEN <<>> ELSE <<AbortPart(ABORT_REASON_STEER)>>
         ELSE /\ after.loops[l].signal = loops[l].signal
              /\ ~after.loops[l].signal.aborted
              /\ after.loops[l].stream = left

\* C6, the fold: when a loop folds the abort part carrying the reserved
\* reason, the one event it publishes is turn-steer with the in-flight
\* message, the batch it takes is what the steering mode dequeues (the head
\* in FIFO, the whole queue in ALL) and is not empty, the start-cause of its
\* next turn is "steer", and the loop goes on.
C6_Fold ==
  \A l \in Loops :
    (NextPart(l, "abort") /\ Head(loops[l].stream).reason = ABORT_REASON_STEER) =>
      LET after == resume(St, l, <<>>) IN
      /\ after.events[l] =
           Append(events[l],
                  Event(TURN_STEER, l, loops[l].turnId, loops[l].turnMessage, Undefined,
                        <<>>, Undefined, Undefined))
      /\ after.loops[l].pendingPrompts = Batch(steeringPrompts, config.steeringMode)
      /\ after.loops[l].pendingPrompts # <<>>
      /\ after.steeringPrompts = Rest(steeringPrompts, config.steeringMode)
      /\ after.loops[l].turnStartReason = STEER
      /\ after.loops[l].pc = "await"
      /\ after.followUpPrompts = followUpPrompts

\* C6, the next turn: a loop whose stream has ended with a steering batch
\* taken appends the batch to context and makes the next model call without
\* publishing anything; the turn-start it publishes when that call starts
\* carries the cause "steer" and the batch.
C6_NextTurn ==
  \A l \in Loops :
    (loops[l].pc = "await" /\ loops[l].pendingPrompts # <<>>
       /\ loops[l].turnStartReason = STEER) =>
      /\ loops[l].stream = <<>> =>
           \A stream \in Streams :
             LET after == resume(St, l, stream) IN
             /\ after.events[l] = events[l]
             /\ after.context = context \o BatchMessages(loops[l].pendingPrompts)
             /\ after.loops[l].pc = "await" /\ after.loops[l].stream = stream
             /\ after.loops[l].pendingPrompts = loops[l].pendingPrompts
             /\ after.loops[l].turnStartReason = STEER
      /\ NextPart(l, "start") =>
           LET after == resume(St, l, <<>>) IN
           after.events[l] =
             Append(events[l],
                    Event(TURN_START, l, loops[l].turnId, 0, STEER, loops[l].pendingPrompts,
                          Undefined, Undefined))

\* C6, the session: among the events of a session, what follows a turn-steer
\* is never session-end, and the first turn-start after it carries the cause
\* "steer" and a batch that is not empty; no session-end comes between the two.
C6_Session ==
  \A l \in Loops : \A i \in 1..Len(events[l]) :
    events[l][i].type = TURN_STEER =>
      \A j \in (i + 1)..Len(events[l]) :
        ( /\ events[l][j].type \in {TURN_START, SESSION_END}
          /\ \A k \in (i + 1)..(j - 1) : events[l][k].type \notin {TURN_START, SESSION_END} )
        => /\ events[l][j].type = TURN_START
           /\ events[l][j].startReason = STEER
           /\ events[l][j].prompts # <<>>

\* C6: at a finish-step the current model call is cancelled with the
\* reserved reason iff the steering queue is non-empty; folding the abort
\* part that results publishes turn-steer, not turn-abort, and dequeues the
\* steering prompts per the steering mode; the session goes on with a turn
\* whose start-cause is "steer" and whose batch is the dequeued prompts, with
\* no session-end in between.
C6_Steering == C6_Checkpoint /\ C6_Fold /\ C6_NextTurn /\ C6_Session

\* start(), then followUp(F1), then one more followUp(), each accepted, are
\* the public calls made so far, and the follow-up mode is FIFO.
TwoFollowUps ==
  /\ Len(calls) = 3
  /\ calls[1].op = "start" /\ calls[1].val = "true"
  /\ calls[2].op = "followUp" /\ calls[2].val = "true"
  /\ calls[3].op = "followUp" /\ calls[3].val = "true"
  /\ config.followUpMode = FIFO

FollowUpTurns ==
  << [startReason |-> START, prompts |-> <<calls[1].prompt>>],
     [startReason |-> FOLLOW_UP, prompts |-> <<calls[2].prompt>>],
     [startReason |-> FOLLOW_UP, prompts |-> <<calls[3].prompt>>] >>

\* C7: in FIFO follow-up mode, with start() and two accepted followUp() the
\* only calls made, the turn-starts of the session are at every moment an
\* initial part of [start with the start prompt, follow-up with the first
\* prompt alone, follow-up with the second prompt alone]; session-end is
\* published at most once, as the last event, and only after all three.
C7_TwoFollowUps ==
  TwoFollowUps =>
    /\ IsPrefix(TurnStarts(events[1]), FollowUpTurns)
    /\ \A i \in 1..Len(events[1]) :
         events[1][i].type = SESSION_END =>
           i = Len(events[1]) /\ TurnStarts(events[1]) = FollowUpTurns
    /\ loops[1].pc = "done" => Published(events[1], SESSION_END)

C7_Witness ==
  /\ TwoFollowUps
  /\ loops[1].pc = "done"
  /\ TurnStarts(events[1]) = FollowUpTurns
  /\ followUpPrompts = <<>>

\* The branch of recover() the state calls for: 0 for the refusal of a
\* running agent or an empty context, then 1 to 5 in the order of precedence.
RecoverBranch ==
  IF isRunning(St) \/ context = <<>> THEN 0
  ELSE IF context[Len(context)].role # "assistant" THEN 1
  ELSE IF lastTurnFinishReason \notin {"stop", "tool-calls"} THEN 2
  ELSE IF steeringPrompts # <<>> THEN 3
  ELSE IF followUpPrompts # <<>> THEN 4
  ELSE 5

BranchLog ==
  << "recover, retry with current context",
     "recover, re-generate last turn with current context",
     "recover, recover with pending steering prompts",
     "recover, recover with pending follow-up prompts",
     "recover, no pending prompts to recover" >>

\* The session recover() starts replays input on top of ctx: a new loop with
\* the start-cause "recover" holds input as its batch, has published
\* session-start alone, and has made its model call with context ctx
\* followed by the messages of input.  With nothing at all to send, the
\* session has ended at once instead.
Replays(after, ctx, input, stream) ==
  LET n == Len(loops) + 1 IN
  /\ Result(after) = "true"
  /\ Len(after.loops) = n
  /\ after.loops[n].turnStartReason = RECOVER
  /\ after.loops[n].pendingPrompts = input
  /\ after.context = ctx \o BatchMessages(input)
  /\ IF after.context = <<>>
     THEN /\ after.events[n] = <<SessionEvent(SESSION_START, n), SessionEvent(SESSION_END, n)>>
          /\ after.loops[n].pc = "done"
          /\ after.runningPromise = 0
     ELSE /\ after.events[n] = <<SessionEvent(SESSION_START, n)>>
          /\ after.loops[n].pc = "await" /\ after.loops[n].stream = stream
          /\ after.runningPromise = n

\* C8: in every reachable state recover() takes the one branch that the
\* running flag, the context, the last finish reason and the queues call for:
\* false with nothing changed when running or with no context; else (1)
\* replay with empty input when the last message is not an assistant's, (2)
\* pop the trailing assistant message and replay when the last finish reason
\* is neither stop nor tool-calls, (3) dequeue and replay the steering
\* prompts, (4) dequeue and replay the follow-up prompts, (5) false.
C8_RecoverPrecedence ==
  \A stream \in Streams :
    LET after == recover(St, stream)
        b == RecoverBranch
        log == after.calls[Len(after.calls)].log
    IN /\ b \in 1..5 => log = BranchLog[b]
       /\ b = 0 => Result(after) = "false" /\ SameAgent(after, St)
                   /\ \A k \in 1..5 : log # BranchLog[k]
       /\ b = 1 => /\ Replays(after, context, <<>>, stream)
                   /\ after.steeringPrompts = steeringPrompts
                   /\ after.followUpPrompts = followUpPrompts
       /\ b = 2 => /\ Replays(after, SubSeq(context, 1, Len(context) - 1), <<>>, stream)
                   /\ after.steeringPrompts = steeringPrompts
                   /\ after.followUpPrompts = followUpPrompts
       /\ b = 3 => /\ Replays(after, context, Batch(steeringPrompts, config.steeringMode),
                              stream)
                   /\ after.steeringPrompts = Rest(steeringPrompts, config.steeringMode)
                   /\ after.followUpPrompts = followUpPrompts
       /\ b = 4 => /\ Replays(after, context, Batch(followUpPrompts, config.followUpMode),
                              stream)
                   /\ after.steeringPrompts = steeringPrompts
                   /\ after.followUpPrompts = Rest(followUpPrompts, config.followUpMode)
       /\ b = 5 => Result(after) = "false" /\ SameAgent(after, St)

\* recover() has just replayed the follow-up prompt that was queued when the
\* agent went idle after a turn that finished with tool-calls.
C8_Witness ==
  /\ calls # <<>> /\ LastCall.op = "recover" /\ LastCall.log = BranchLog[4]
  /\ Len(loops) = 2 /\ loops[2].pendingPrompts = <<F1>> /\ events[2] = <<SessionEvent(SESSION_START, 2)>>
  /\ lastTurnFinishReason = "tool-calls"
  /\ followUpPrompts = <<>>

\* C9, the call: in every reachable state where the agent is idle, the last
\* context message is an assistant message and the last finish reason is
\* "length", recover() returns true having removed that message from context
\* and started a session that re-runs the turn with no new input.
C9_Pops ==
  ( /\ ~isRunning(St) /\ context # <<>>
    /\ context[Len(context)].role = "assistant"
    /\ lastTurnFinishReason = "length" ) =>
    \A stream \in Streams :
      LET after == recover(St, stream) IN
      /\ Replays(after, SubSeq(context, 1, Len(context) - 1), <<>>, stream)
      /\ \A i \in 1..Len(after.context) : after.context[i] # context[Len(context)]

\* start() and then the recover() that re-generates are the public calls
\* made so far, and the one turn of the first session finished with "length".
RegenerateScenario ==
  /\ Len(calls) = 2
  /\ calls[1].op = "start" /\ calls[1].val = "true"
  /\ calls[2].op = "recover" /\ calls[2].log = BranchLog[2]
  /\ \E i \in 1..Len(events[1]) :
       events[1][i].type = TURN_FINISH /\ events[1][i].finishReason = "length"

\* C9, the turn: in the regenerate scenario the message recover() removed is
\* never in context again, context never holds more than one assistant
\* message, and once the recovered turn has published its turn-finish the
\* assistant message in the position of the old one is the new one.
C9_Replaces ==
  RegenerateScenario =>
    /\ \A i \in 1..Len(context) : context[i].oid # 1
    /\ AssistantCount(context) <= 1
    /\ \A i \in 1..Len(events[2]) :
         events[2][i].type = TURN_FINISH =>
           /\ Len(context) >= 2
           /\ context[1] = UserMsg("Hi")
           /\ context[2] = Msg("assistant", events[2][i].message, "", "")
           /\ events[2][i].message = 2
           /\ AssistantCount(context) = 1

\* C9: recover() on an idle agent whose last context message is the
\* assistant message of a turn that finished with "length" removes that
\* message and re-runs the turn; after the recovered turn context holds one
\* assistant message in that position, the new one, never the old and the new.
C9_Regenerate == C9_Pops /\ C9_Replaces

C9_Witness ==
  /\ RegenerateScenario
  /\ loops[2].pc = "done"
  /\ Published(events[2], TURN_FINISH)
  /\ heap[1] # <<>> /\ heap[2] # <<>>

\* C10: a session whose loop is no longer running has published session-end,
\* however its turns concluded.
C10_SessionEnds ==
  \A l \in Loops :
    loops[l].pc # "await" => Published(events[l], SESSION_END)

\* The promise waitForIdle() returned is resolved.
Settled(promise) == promise = 0 \/ promise \in resolved

Aborted == \E i \in 1..Len(calls) : calls[i].op = "abort" /\ calls[i].val = "void"

\* C11: the promise waitForIdle() returns on an idle agent is a resolved
\* one; the promise of a session whose loop has stopped running is resolved,
\* not pending for ever; and a promise is resolved only once its session has
\* published session-end or abort() has been called.
C11_IdleWaitResolves ==
  /\ ~isRunning(St) => Settled(waitForIdle(St))
  /\ \A l \in Loops : loops[l].pc # "await" => Settled(l)
  /\ \A l \in resolved : Published(events[l], SESSION_END) \/ Aborted

\* C12: an abort() with a reason that is not the reserved one, made on a
\* running agent, leaves the agent not running; and session-end is published
\* for a session only while it is the running one, never for a session that
\* abort() has ended.
C12_NoSessionEndAfterAbort ==
  [][ /\ \A reason \in AbortReasons \ {ABORT_REASON_STEER} :
           (isRunning(St) /\ Abort(reason)) => runningPromise' = 0
      /\ \A l \in Loops :
           (~Published(events[l], SESSION_END) /\ Published(events'[l], SESSION_END))
             => runningPromise = l ]_vars

\* C13: once turn-abort is the last event a session has published, that
\* session makes no further model call: its loop starts no new turn, whatever
\* is queued.
C13_AbortPauses ==
  [][ \A l \in Loops :
        (events[l] # <<>> /\ events[l][Len(events[l])].type = TURN_ABORT)
          => /\ loops'[l].turnId = loops[l].turnId
             /\ events'[l] = events[l] \/ events'[l][Len(events'[l])].type # TURN_START ]_vars

\* The most recent turn has ended with turn-error or turn-abort.
FailedTurn ==
  /\ turns > 0
  /\ \E l \in Loops : \E i \in 1..Len(events[l]) :
       events[l][i].turnId = turns /\ events[l][i].type \in {TURN_ERROR, TURN_ABORT}

\* The calls from index from on are all abort().
OnlyAborts(from, to) ==
  \A i \in from..to : calls[i].op = "abort" /\ calls[i].val = "void"

\* start() and after it nothing but abort() are the public calls made so far.
StartThenAborts ==
  /\ calls # <<>>
  /\ calls[1].op = "start" /\ calls[1].val = "true"
  /\ OnlyAborts(2, Len(calls))

\* C14, the call: after start() and possibly abort(), with the most recent
\* turn ended by turn-error or turn-abort and the agent idle, recover()
\* returns true and starts a session with the start-cause "recover" and no
\* new input, whose model call gets the existing context (less the trailing
\* assistant message of the failed turn, if it left one).
C14_RecoverCall ==
  (StartThenAborts /\ FailedTurn /\ ~isRunning(St)) =>
    \A stream \in Streams :
      LET after == recover(St, stream)
          ctx == IF context[Len(context)].role = "assistant"
                 THEN SubSeq(context, 1, Len(context) - 1)
                 ELSE context
      IN /\ Replays(after, ctx, <<>>, stream)
         /\ after.context # <<>>
         /\ isRunning(after)

\* start(), then possibly abort(), then a recover() that returned true are
\* the public calls made so far, and a turn of the first session ended with
\* turn-error or turn-abort.
RecoveredScenario ==
  /\ Len(calls) >= 2
  /\ calls[1].op = "start" /\ calls[1].val = "true"
  /\ OnlyAborts(2, Len(calls) - 1)
  /\ LastCall.op = "recover" /\ LastCall.val = "true"
  /\ Published(events[1], TURN_ERROR) \/ Published(events[1], TURN_ABORT)

\* C14, the turn: the first turn-start of the session recover() started
\* carries the start-cause "recover" and an empty batch.
C14_RecoverTurn ==
  RecoveredScenario =>
    /\ Len(loops) = 2
    /\ TurnStarts(events[2]) # <<>> =>
         TurnStarts(events[2])[1] = [startReason |-> RECOVER, prompts |-> <<>>]

\* C14: when the most recent turn ended with turn-error or turn-abort and
\* the agent has become idle, recover() returns true and starts a new session
\* whose first turn has the start-cause "recover" and replays the context.
C14_RecoverAfterFailure == C14_RecoverCall /\ C14_RecoverTurn

C14_Witness ==
  /\ RecoveredScenario
  /\ Published(events[1], TURN_ERROR)
  /\ Published(events[1], SESSION_END)
  /\ TurnStarts(events[2]) # <<>>
  /\ loops[2].pc = "done"

\* C15, deferral: updateProps(patch) on a running agent whose last published
\* event is not a safe one changes no configuration field and merges the
\* patch into the pending patch.
C15_Defers ==
  (isRunning(St) /\ currentStage \notin validStages) =>
    \A patch \in Patches :
      LET after == updateProps(St, patch) IN
      /\ after.config = config
      /\ after.pendingProps = MergeProps(pendingProps, patch)
      /\ after = [St EXCEPT !.pendingProps = after.pendingProps]

\* C15, the loop's checkpoint: a loop that goes on to its next turn with a
\* patch pending applies every field of the patch in that one step and
\* leaves no patch pending; a loop that ends instead leaves configuration
\* and pending patch as they are.
C15_AppliesAtNextTurn ==
  \A l \in Loops :
    (loops[l].pc = "await" /\ loops[l].stream = <<>> /\ pendingProps # NoProps) =>
      \A stream \in Streams :
        LET after == resume(St, l, stream) IN
        IF after.turns > turns
        THEN after.config = ApplyProps(config, pendingProps) /\ after.pendingProps = NoProps
        ELSE after.config = config /\ after.pendingProps = pendingProps

\* C15, the caller's checkpoint: updateProps(patch) made where it applies at
\* once, with an earlier patch pending, leaves no patch pending and every
\* field of the pending patch applied, then those of the new patch.
C15_AppliesAtSafeStage ==
  (~(isRunning(St) /\ currentStage \notin validStages) /\ pendingProps # NoProps) =>
    \A patch \in Patches :
      LET after == updateProps(St, patch) IN
      /\ after.pendingProps = NoProps
      /\ after.config = ApplyProps(ApplyProps(config, pendingProps), patch)

\* C15: an updateProps made mid-turn changes no effective configuration
\* field and is merged into the pending patch; at the next safe checkpoint
\* all fields of the pending patch are applied in one step, never a subset,
\* and the pending patch is then empty.
C15_DeferredProps == C15_Defers /\ C15_AppliesAtNextTurn /\ C15_AppliesAtSafeStage

\* The event a stream part of the given type is published as ("": none).
PartEvent(type) ==
  CASE type = "start" -> TURN_START
    [] type = "reasoning-start" -> REASONING_START
    [] type = "reasoning-delta" -> REASONING_UPDATE
    [] type = "reasoning-end" -> REASONING_END
    [] type = "text-start" -> TEXT_START
    [] type = "text-delta" -> TEXT_UPDATE
    [] type = "text-end" -> TEXT_END
    [] type = "tool-call" -> TOOL_CALL
    [] type = "tool-result" -> TOOL_RESULT
    [] type = "tool-error" -> TOOL_ERROR
    [] type = "finish" -> TURN_FINISH
    [] type = "error" -> TURN_ERROR
    [] OTHER -> ""

\* The events the parts are published as, in the order of the parts.
RECURSIVE PartEvents(_)
PartEvents(parts) ==
  IF parts = <<>> THEN <<>>
  ELSE LET e == PartEvent(Head(parts).type) IN
       (IF e = "" THEN <<>> ELSE <<e>>) \o PartEvents(Tail(parts))

\* The types of the events session l has published for its current turn.
TurnEventTypes(l) ==
  LET OfTurn(e) == e.turnId = loops[l].turnId IN
  EventTypes(SelectSeq(events[l], OfTurn))

\* The parts of its current stream loop l has received.
Received(l) == SubSeq(loops[l].script, 1, Len(loops[l].script) - Len(loops[l].stream))

\* C16: at every moment of a turn, the events published for the turn are the
\* events of the stream parts received so far, one for one and in the order
\* received (a part whose fold threw published none; a cancelled call adds
\* its turn-abort or turn-steer after the events of the parts received
\* before the cancellation).
C16_OrderPreserved ==
  \A l \in Loops :
    loops[l].turnId > 0 =>
      IF ~loops[l].signal.aborted
      THEN TurnEventTypes(l) =
             PartEvents(IF loops[l].pc = "crashed"
                        THEN SubSeq(Received(l), 1, Len(Received(l)) - 1)
                        ELSE Received(l))
      ELSE \E k \in 0..Len(loops[l].script) :
             \E end \in {<<>>, <<TURN_ABORT>>, <<TURN_STEER>>} :
               TurnEventTypes(l) = PartEvents(SubSeq(loops[l].script, 1, k)) \o end

C16_Witness ==
  \E l \in Loops :
    /\ loops[l].pc = "done" /\ loops[l].script = ToolStream /\ ~loops[l].signal.aborted
    /\ TurnEventTypes(l) =
         <<TURN_START, TOOL_CALL, TOOL_RESULT, TEXT_START, TEXT_UPDATE, TURN_FINISH>>

\* The stream parts that open a content part of the assistant message.
Opening == {"reasoning-start", "text-start", "tool-call"}

\* The place in the message content of the part opened by parts[i].
PartIndex(parts, i) == Cardinality({j \in 1..i : parts[j].type \in Opening})

\* Where the part of the given kind opened at parts[i] is closed: the first
\* later end, or start, of that kind; past the last part when there is none.
Close(parts, kind, i) ==
  LET closing == {j \in (i + 1)..Len(parts) :
                    parts[j].type \in {kind \o "-end", kind \o "-start"}}
  IN IF closing = {} THEN Len(parts) + 1
     ELSE CHOOSE j \in closing : \A k \in closing : j <= k

\* The payloads of the deltas of the given kind among parts[from..to], joined
\* in order.
RECURSIVE Payloads(_, _, _, _)
Payloads(parts, kind, from, to) ==
  IF from > to THEN ""
  ELSE (IF parts[from].type = kind \o "-delta" THEN parts[from].text ELSE "")
       \o Payloads(parts, kind, from + 1, to)

\* content is what the parts assemble to: one content part for each opening
\* part, and every text and reasoning part holding the joined payloads of
\* the deltas received between its start and its end.
Assembled(content, parts) ==
  /\ Len(content) = PartIndex(parts, Len(parts))
  /\ \A i \in 1..Len(parts) : \A kind \in {"text", "reasoning"} :
       parts[i].type = kind \o "-start" =>
         content[PartIndex(parts, i)] =
           ContentPart(kind, Payloads(parts, kind, i + 1, Close(parts, kind, i) - 1))

\* C17: at every moment, each text part and each reasoning part of a turn's
\* assistant message holds the concatenation, in the order received, of the
\* payloads of the deltas received since the start event that opened it.
C17_DeltasConcatenated ==
  \A l \in Loops :
    loops[l].turnMessage # 0 =>
      IF ~loops[l].signal.aborted
      THEN Assembled(heap[loops[l].turnMessage],
                     IF loops[l].pc = "crashed"
                     THEN SubSeq(Received(l), 1, Len(Received(l)) - 1)
                     ELSE Received(l))
      ELSE \E k \in 0..Len(loops[l].script) :
             Assembled(heap[loops[l].turnMessage], SubSeq(loops[l].script, 1, k))

\* A reasoning part and a text part of two deltas each have been assembled,
\* and the text-end has not arrived yet.
C17_Witness ==
  \E l \in Loops :
    /\ loops[l].script = DeltaStream(<<"b", "a">>, <<"a", "b">>)
    /\ loops[l].stream = <<P("text-end"), Finish("stop")>>
    /\ heap[loops[l].turnMessage] = <<ContentPart("reasoning", "ba"), ContentPart("text", "ab")>>

\* What a dequeue from queue under mode must give: batch is the batch it
\* returned and left the queue it left.
DequeuedRight(queue, mode, batch, left) ==
  IF mode = FIFO
  THEN /\ Len(batch) <= 1
       /\ queue = <<>> => batch = <<>>
       /\ queue # <<>> => batch = <<queue[1]>>
       /\ Len(left) = Len(queue) - Len(batch)
       /\ left = SubSeq(queue, Len(batch) + 1, Len(queue))
  ELSE batch = queue /\ left = <<>>

\* C18: for both queues, whatever they hold: a FIFO dequeue returns at most
\* one prompt, the oldest (none from an empty queue), and leaves the rest in
\* order; a drain-all dequeue returns all prompts in insertion order and
\* leaves the queue empty.  Nothing but the queue changes.
C18_Dequeue ==
  LET ds == dequeueSteeringPrompts(St)
      df == dequeueFollowUpPrompts(St)
  IN /\ DequeuedRight(steeringPrompts, config.steeringMode, ds.prompts, ds.st.steeringPrompts)
     /\ ds.st = [St EXCEPT !.steeringPrompts = ds.st.steeringPrompts]
     /\ DequeuedRight(followUpPrompts, config.followUpMode, df.prompts, df.st.followUpPrompts)
     /\ df.st = [St EXCEPT !.followUpPrompts = df.st.followUpPrompts]

\* Two steering prompts and two follow-up prompts went in; in FIFO mode one
\* steering prompt has been taken and the newer is left, in drain-all mode
\* the follow-up queue has been emptied.
C18_Witness ==
  /\ Len(calls) = 5
  /\ calls[2].op = "steer" /\ calls[3].op = "steer" /\ calls[2].prompt # calls[3].prompt
  /\ config.steeringMode = FIFO /\ config.followUpMode = ALL
  /\ steeringPrompts = <<calls[3].prompt>>
  /\ followUpPrompts = <<>>

\* C19: reset() on a running agent returns false and changes nothing; on an
\* agent that is not running it returns true and leaves context and both
\* queues empty and the last finish reason and the current stage cleared,
\* nothing else changed, so that a recover() made next returns false and
\* starts nothing.
C19_Reset ==
  LET after == reset(St) IN
  IF isRunning(St)
  THEN Result(after) = "false" /\ SameAgent(after, St)
  ELSE /\ Result(after) = "true"
       /\ after.context = <<>>
       /\ after.steeringPrompts = <<>> /\ after.followUpPrompts = <<>>
       /\ after.lastTurnFinishReason = Undefined
       /\ after.currentStage = Undefined
       /\ SameAgent(after, [St EXCEPT !.context = <<>>, !.steeringPrompts = <<>>,
                                      !.followUpPrompts = <<>>,
                                      !.lastTurnFinishReason = Undefined,
                                      !.currentStage = Undefined])
       /\ \A stream \in Streams :
            LET next == recover(after, stream) IN
            Result(next) = "false" /\ SameAgent(next, after)

\* reset() has just cleared the context of an agent whose session ended
\* after a turn that streamed content and finished.
C19_Witness ==
  /\ calls # <<>> /\ LastCall.op = "reset" /\ LastCall.val = "true"
  /\ heap # <<>> /\ context = <<>>
  /\ Published(events[1], TURN_FINISH) /\ Published(events[1], SESSION_END)
  /\ lastTurnFinishReason = Undefined /\ currentStage = Undefined

\* C20, the call: start(prompt) on an agent that is not running returns
\* true and leaves the agent running a new session, both queues empty, the
\* prompt appended to context, and the new loop holding the prompt alone as
\* its batch with the start-cause "start".
C20_StartCall ==
  ~isRunning(St) =>
    \A prompt \in StartPrompts, stream \in Streams :
      LET after == start(St, prompt, stream)
          n == Len(loops) + 1
      IN /\ Result(after) = "true"
         /\ isRunning(after) /\ after.runningPromise = n
         /\ after.steeringPrompts = <<>> /\ after.followUpPrompts = <<>>
         /\ Len(after.loops) = n
         /\ after.loops[n].pendingPrompts = <<prompt>>
         /\ after.loops[n].turnStartReason = START
         /\ after.loops[n].pc = "await" /\ after.loops[n].stream = stream
         /\ after.events[n] = <<SessionEvent(SESSION_START, n)>>
         /\ after.context = context \o <<UserMsg(prompt.text)>>

\* The calls that started the sessions, in the order of the sessions.
IsSessionCall(call) == call.op \in {"start", "recover"} /\ call.val = "true"

SessionCalls == SelectSeq(calls, IsSessionCall)

\* C20, the turn: the first turn-start of every session that start(prompt)
\* started carries the start-cause "start" and the batch of that one prompt.
C20_StartTurn ==
  /\ Len(SessionCalls) = Len(loops)
  /\ \A l \in Loops :
       (SessionCalls[l].op = "start" /\ TurnStarts(events[l]) # <<>>) =>
         TurnStarts(events[l])[1] =
           [startReason |-> START, prompts |-> <<SessionCalls[l].prompt>>]

IsAccepted(op, call) == call.op = op /\ call.val = "true"

IsAcceptedSteer(call) == IsAccepted("steer", call)

IsAcceptedFollowUp(call) == IsAccepted("followUp", call)

CallPrompts(cs) == [i \in 1..Len(cs) |-> cs[i].prompt]

AcceptedSteers == CallPrompts(SelectSeq(calls, IsAcceptedSteer))

AcceptedFollowUps == CallPrompts(SelectSeq(calls, IsAcceptedFollowUp))

IsSuffix(a, b) == Len(a) <= Len(b) /\ a = SubSeq(b, Len(b) - Len(a) + 1, Len(b))

\* C21 as stated: whenever the agent is not running, both queues are empty.
C21_IdleQueuesEmpty ==
  ~isRunning(St) => steeringPrompts = <<>> /\ followUpPrompts = <<>>

\* C21, amended: each queue holds, in order, the latest of the prompts that
\* steer() respectively followUp() accepted while a session was running; an
\* agent that is not running accepts none, and both queues are empty once
\* start() or reset() has returned true; until then the prompts an ended or
\* aborted session left queued stay queued, and recover() only takes from
\* the head of the queues.
C21_QueuesWhenIdle ==
  /\ IsSuffix(steeringPrompts, AcceptedSteers)
  /\ IsSuffix(followUpPrompts, AcceptedFollowUps)
  /\ ~isRunning(St) =>
       /\ \A prompt \in SteerPrompts :
            steer(St, prompt).steeringPrompts = steeringPrompts
       /\ \A prompt \in FollowUpPrompts :
            followUp(St, prompt).followUpPrompts = followUpPrompts
       /\ reset(St).steeringPrompts = <<>> /\ reset(St).followUpPrompts = <<>>
       /\ \A prompt \in StartPrompts, stream \in Streams :
            LET after == start(St, prompt, stream) IN
            after.steeringPrompts = <<>> /\ after.followUpPrompts = <<>>
       /\ \A stream \in Streams :
            LET after == recover(St, stream) IN
            /\ IsSuffix(after.steeringPrompts, steeringPrompts)
            /\ IsSuffix(after.followUpPrompts, followUpPrompts)

\* The session has published session-end and the agent is not running, with
\* an accepted steering prompt still queued.
C21_Witness ==
  /\ ~isRunning(St) /\ steeringPrompts # <<>>
  /\ Len(loops) = 1 /\ loops[1].pc = "done" /\ Published(events[1], SESSION_END)
  /\ steeringPrompts = AcceptedSteers

\* The loops that are consuming a model stream: suspended on the stream of a
\* model call that nothing has cancelled.
Consuming == {l \in Loops : loops[l].pc = "await" /\ ~loops[l].signal.aborted}

\* The assistant messages in progress: the in-flight messages of those loops.
InProgress == {loops[l].turnMessage : l \in {k \in Consuming : loops[k].turnMessage # 0}}

\* C22: at most one loop is consuming a model stream and at most one
\* assistant message is in progress, whatever the interleaving of the public
\* calls with the streaming.
C22_OneTurnAtATime == Cardinality(Consuming) <= 1 /\ Cardinality(InProgress) <= 1

\* Loop l of st has just made a model call, answered by stream, whose token
\* is the agent's current one and is not cancelled.
Uncancelled(st, l, stream) ==
  /\ ~st.loops[l].signal.aborted
  /\ st.acOwner = l
  /\ st.loops[l].stream = stream /\ st.loops[l].script = stream

\* C23: whenever a loop goes on to a new model call after its stream has
\* ended, and whenever start() or recover() makes the first model call of a
\* session, the call is given the agent's current token, not cancelled,
\* whatever abort() or the steering checkpoint cancelled before.
C23_FreshToken ==
  /\ \A l \in Loops, stream \in Streams :
       (loops[l].pc = "await" /\ loops[l].stream = <<>>) =>
         LET after == resume(St, l, stream) IN
         after.loops[l].pc = "await" => Uncancelled(after, l, stream)
  /\ \A prompt \in StartPrompts, stream \in Streams :
       LET after == start(St, prompt, stream) IN
       Result(after) = "true" => Uncancelled(after, Len(after.loops), stream)
  /\ \A stream \in Streams :
       LET after == recover(St, stream) IN
       (Result(after) = "true" /\ after.loops[Len(after.loops)].pc = "await") =>
         Uncancelled(after, Len(after.loops), stream)

\* The caller's abort() has cancelled a turn, which has published
\* turn-abort, and the same loop has since made a model call that has yet to
\* deliver its first part, with a token that is not cancelled.
C23_Witness ==
  /\ Aborted
  /\ \E l \in Loops :
       /\ events[l] # <<>> /\ events[l][Len(events[l])].type = TURN_ABORT
       /\ loops[l].pc = "await" /\ loops[l].script # <<>>
       /\ loops[l].stream = loops[l].script
       /\ ~loops[l].signal.aborted /\ acOwner = l

\* C24: when a loop whose session no abort() has touched publishes
\* session-end, both queues are empty: no accepted prompt is left waiting.
C24_NoPromptLeftBehind ==
  ~Aborted =>
    \A l \in Loops, stream \in Streams :
      loops[l].pc = "await" =>
        LET after == resume(St, l, stream) IN
        (Published(after.events[l], SESSION_END) /\ ~Published(events[l], SESSION_END))
          => after.steeringPrompts = <<>> /\ after.followUpPrompts = <<>>

\* The context entries of a batch: a string prompt is one user message, a
\* message-array prompt its messages in order; prompts in batch order.
RECURSIVE Spread(_)
Spread(prompts) ==
  IF prompts = <<>> THEN <<>>
  ELSE LET n == Len(prompts)
           last == prompts[n]
       IN Spread(SubSeq(prompts, 1, n - 1))
          \o (IF last.form = "prompt"
              THEN <<[role |-> "user", oid |-> 0, text |-> last.text, call |-> ""]>>
              ELSE last.messages)

\* C25, the model call: a loop that goes on to a new model call after its
\* stream has ended appends its batch, and nothing else, to context: the
\* batch it already held (a steering batch) or else the follow-up batch it
\* takes, with the start-cause "follow-up".
C25_Call ==
  \A l \in Loops, stream \in Streams :
    (loops[l].pc = "await" /\ loops[l].stream = <<>>) =>
      LET after == resume(St, l, stream)
          held == loops[l].pendingPrompts
          batch == IF held # <<>> THEN held
                   ELSE Batch(followUpPrompts, config.followUpMode)
      IN after.loops[l].pc = "await" =>
           /\ after.loops[l].pendingPrompts = batch
           /\ after.context = context \o Spread(batch)
           /\ after.loops[l].turnStartReason =
                IF held # <<>> THEN loops[l].turnStartReason ELSE FOLLOW_UP
           /\ after.events = events

\* C25, the event: folding the start part publishes turn-start with the
\* loop's batch and start-cause and empties the batch; context is the one
\* the model call was given, which ends with the entries of the batch as
\* long as the session is the agent's only one and no abort() has been made.
C25_TurnStart ==
  \A l \in Loops :
    (loops[l].pc = "await" /\ loops[l].stream # <<>> /\ Head(loops[l].stream).type = "start")
      => LET after == resume(St, l, <<>>) IN
         /\ after.events[l] =
              Append(events[l],
                     [type |-> TURN_START, sessionId |-> l, turnId |-> loops[l].turnId,
                      message |-> 0, startReason |-> loops[l].turnStartReason,
                      prompts |-> loops[l].pendingPrompts, finishReason |-> Undefined,
                      reason |-> Undefined])
         /\ after.loops[l].pendingPrompts = <<>>
         /\ after.context = context
         /\ (Len(loops) = 1 /\ ~Aborted) => IsSuffix(Spread(loops[l].pendingPrompts), context)

\* What recover() keeps of context and what it takes as the batch of the
\* session it begins, by its branch.
RecoverRegenerates ==
  /\ context[Len(context)].role = "assistant"
  /\ lastTurnFinishReason \notin {"stop", "tool-calls"}

RecoverKept ==
  IF RecoverRegenerates THEN SubSeq(context, 1, Len(context) - 1) ELSE context

RecoverBatch ==
  IF context[Len(context)].role # "assistant" \/ RecoverRegenerates THEN <<>>
  ELSE IF steeringPrompts # <<>> THEN Batch(steeringPrompts, config.steeringMode)
  ELSE Batch(followUpPrompts, config.followUpMode)

\* C25, the first model call of a session: start(prompt) makes it with the
\* batch of that one prompt and the start-cause "start", recover() with the
\* batch of its branch (none, the steering batch, the follow-up batch) and
\* the start-cause "recover"; either appends the entries of the batch, and
\* nothing else, to the context it keeps.
C25_Begin ==
  /\ \A prompt \in TurnStartPrompts, stream \in BatchStreams :
       LET after == start(St, prompt, stream)
           n == Len(after.loops)
       IN (Result(after) = "true" /\ after.loops[n].pc = "await") =>
            /\ n = Len(loops) + 1
            /\ after.loops[n].pendingPrompts = <<prompt>>
            /\ after.loops[n].turnStartReason = START
            /\ after.context = context \o Spread(<<prompt>>)
  /\ \A stream \in BatchStreams :
       LET after == recover(St, stream)
           n == Len(after.loops)
       IN (Result(after) = "true" /\ after.loops[n].pc = "await") =>
            /\ n = Len(loops) + 1
            /\ after.loops[n].pendingPrompts = RecoverBatch
            /\ after.loops[n].turnStartReason = RECOVER
            /\ after.context = RecoverKept \o Spread(RecoverBatch)

\* C25, the origin: a turn-start says "steer" exactly when turn-steer is the
\* latest turn-start or turn-steer its session published before it (the
\* steering batch has not been published yet); "start" and "recover" only as
\* the first turn-start of a session that start(), respectively recover(),
\* began, "start" with the prompt of that call alone; "follow-up" only when
\* an earlier turn of the session has published an event, and with a batch
\* that is not empty.
C25_Origin ==
  \A l \in Loops : \A i \in 1..Len(events[l]) :
    LET e == events[l][i]
        first == \A j \in 1..(i - 1) : events[l][j].type # TURN_START
        steered == \E j \in 1..(i - 1) :
                     /\ events[l][j].type = TURN_STEER
                     /\ \A k \in (j + 1)..(i - 1) : events[l][k].type # TURN_START
    IN e.type = TURN_START =>
         /\ e.startReason = STEER <=> steered
         /\ e.startReason = START =>
              first /\ SessionCalls[l].op = "start" /\ e.prompts = <<SessionCalls[l].prompt>>
         /\ e.startReason = RECOVER => first /\ SessionCalls[l].op = "recover"
         /\ e.startReason = FOLLOW_UP =>
              /\ \E j \in 1..(i - 1) : events[l][j].turnId \notin {0, e.turnId}
              /\ e.prompts # <<>>
         /\ e.startReason \in {START, RECOVER, STEER, FOLLOW_UP}

\* C25: the prompts of every turn-start are the batch appended to context
\* just before that model call, in batch order, a string prompt as one user
\* message and a message-array prompt spread in order; the start-cause names
\* the origin of the batch; the batch is empty once turn-start is published.
C25_TurnStartBatch == C25_Begin /\ C25_Call /\ C25_TurnStart /\ C25_Origin

\* A session that start() began has published turn-starts for its start and
\* for a follow-up batch and has ended with a message-array steering prompt
\* still queued; recover() has taken that prompt as the batch of a second
\* session, whose first turn-start carries it with the cause "recover", and
\* context ends with the messages of the prompt in order.
C25_Witness ==
  /\ Len(loops) = 2
  /\ SessionCalls[1].op = "start" /\ SessionCalls[2].op = "recover"
  /\ \E i, k \in 1..Len(events[1]) :
       /\ i < k
       /\ events[1][i].type = TURN_START /\ events[1][i].startReason = START
       /\ events[1][k].type = TURN_START /\ events[1][k].startReason = FOLLOW_UP
       /\ events[1][k].prompts = <<F1>>
  /\ Len(events[2]) = 2
  /\ events[2][2].type = TURN_START /\ events[2][2].startReason = RECOVER
  /\ events[2][2].prompts = <<M12>>
  /\ IsSuffix(<<UserMsg("M1"), UserMsg("M2")>>, context)
  /\ loops[2].pendingPrompts = <<>>

\* The events that a content part's beginning publishes.
OpeningEvents == {REASONING_START, TEXT_START, TOOL_CALL}

\* The events that carry the turn's assistant message.
ContentEvents ==
  OpeningEvents \cup {REASONING_UPDATE, REASONING_END, TEXT_UPDATE, TEXT_END, TURN_FINISH,
                      TURN_STEER}

\* The published events, each named by its session and its place there.
AllPlaces == UNION {{<<l, i>> : i \in 1..Len(events[l])} : l \in Loops}

At(p) == events[p[1]][p[2]]

\* The places of the events that began a content part of message m.
OpeningsOf(m) == {p \in AllPlaces : At(p).type \in OpeningEvents /\ At(p).message = m}

\* C26, the fold: folding the beginning of a content part appends a new,
\* empty assistant message to context only when the turn has none, and adds
\* the part to the turn's message; folding any other part appends no
\* assistant message and leaves the turn's message the one it was.
C26_Fold ==
  \A l \in Loops :
    (loops[l].pc = "await" /\ loops[l].stream # <<>>) =>
      LET part == Head(loops[l].stream)
          after == resume(St, l, <<>>)
          m == loops[l].turnMessage
          n == Len(heap) + 1
      IN IF part.type \in Opening
         THEN IF m = 0
              THEN /\ after.loops[l].turnMessage = n
                   /\ after.context = Append(context, Msg("assistant", n, "", ""))
                   /\ Len(after.heap) = n /\ Len(after.heap[n]) = 1
                   /\ \A k \in 1..Len(heap) : after.heap[k] = heap[k]
              ELSE /\ after.loops[l].turnMessage = m
                   /\ after.context = context
                   /\ Len(after.heap) = Len(heap)
                   /\ SubSeq(after.heap[m], 1, Len(heap[m])) = heap[m]
                   /\ Len(after.heap[m]) = Len(heap[m]) + 1
         ELSE /\ after.loops[l].turnMessage = m
              /\ Len(after.heap) = Len(heap)
              /\ AssistantCount(after.context) = AssistantCount(context)

\* C26, the turns: every assistant message was created by one turn, which
\* began each of its content parts, and no turn created two; every event of a
\* content part carries the message of its turn; a message is in context at
\* most once, and exactly once while no recover() or reset() has been made.
C26_Turns ==
  /\ \A m \in 1..Len(heap) :
       /\ Cardinality(OpeningsOf(m)) = Len(heap[m]) /\ Len(heap[m]) >= 1
       /\ \A p, q \in OpeningsOf(m) : p[1] = q[1] /\ At(p).turnId = At(q).turnId
       /\ Cardinality({i \in 1..Len(context) : context[i].oid = m}) <= 1
       /\ (\A i \in 1..Len(calls) : calls[i].op \notin {"recover", "reset"})
            => \E i \in 1..Len(context) : context[i] = Msg("assistant", m, "", "")
  /\ \A p, q \in AllPlaces :
       (At(p).message # 0 /\ At(q).message # 0 /\ p[1] = q[1]
          /\ At(p).turnId = At(q).turnId) => At(p).message = At(q).message
  /\ \A p \in AllPlaces : At(p).type \in ContentEvents => At(p).message # 0
  /\ \A l \in Loops : loops[l].turnMessage = 0 =>
       \A i \in 1..Len(events[l]) :
         events[l][i].turnId = loops[l].turnId => events[l][i].type \notin ContentEvents

\* C26: each turn appends at most one assistant message to context, when its
\* first content part begins; every later content part of the turn, in any
\* step, goes into that message; a turn with no content appends none.
C26_OneMessagePerTurn == C26_Fold /\ C26_Turns

\* A turn of two steps has put a tool call and a text part into one message,
\* and a later turn that failed before any content has appended none.
C26_Witness ==
  /\ Len(loops) = 1 /\ Len(heap) = 1 /\ Len(heap[1]) = 2
  /\ heap[1][1].type = "tool-call" /\ heap[1][2].type = "text"
  /\ Published(events[1], TURN_FINISH) /\ Published(events[1], TURN_ERROR)
  /\ Cardinality({i \in 1..Len(events[1]) : events[1][i].type = TURN_START}) = 2
  /\ AssistantCount(context) = 1

\* The content of message m has only grown from heap a to heap b: the parts
\* it had are there, in place and of the same type, their text the same or,
\* for the in-flight message `inflight`, extended by delta; parts have only
\* been added at the end.
Grown(a, b, inflight, delta) ==
  /\ Len(a) <= Len(b)
  /\ \A m \in 1..Len(a) :
       /\ Len(a[m]) <= Len(b[m])
       /\ \A k \in 1..Len(a[m]) :
            /\ b[m][k].type = a[m][k].type
            /\ \/ b[m][k].text = a[m][k].text
               \/ m = inflight /\ b[m][k].text = a[m][k].text \o delta

\* C27, the loop: whatever a loop does when it is resumed, context as it was
\* is a prefix of context as it becomes, and the assistant messages have
\* only grown, the in-flight one by the delta folded.
C27_Loop ==
  \A l \in Loops, stream \in Streams :
    loops[l].pc = "await" =>
      LET after == resume(St, l, stream)
          delta == IF loops[l].stream = <<>> THEN "" ELSE Head(loops[l].stream).text
      IN /\ IsPrefix(context, after.context)
         /\ Grown(heap, after.heap, loops[l].turnMessage, delta)

\* C27, the calls: steer(), followUp(), abort() and updateProps() leave
\* context alone; start() only appends; while a session runs recover() and
\* reset() leave it alone; otherwise reset() empties it and recover() either
\* only appends or first removes the last entry, an assistant message, and
\* that entry alone.
C27_Calls ==
  /\ \A prompt \in SteerPrompts : steer(St, prompt).context = context
  /\ \A prompt \in FollowUpPrompts : followUp(St, prompt).context = context
  /\ \A reason \in AbortReasons : abort(St, reason).context = context
  /\ \A props \in Patches : updateProps(St, props).context = context
  /\ \A prompt \in StartPrompts, stream \in Streams :
       LET after == start(St, prompt, stream) IN
       /\ IsPrefix(context, after.context) /\ after.heap = heap
       /\ isRunning(St) => after.context = context
  /\ reset(St).context = (IF isRunning(St) THEN context ELSE <<>>)
  /\ reset(St).heap = heap
  /\ \A stream \in Streams :
       LET after == recover(St, stream) IN
       /\ after.heap = heap
       /\ IF isRunning(St) THEN after.context = context
          ELSE \/ IsPrefix(context, after.context)
               \/ /\ context # <<>> /\ context[Len(context)].role = "assistant"
                  /\ IsPrefix(SubSeq(context, 1, Len(context) - 1), after.context)

\* C27: context is append-only while a session runs, up to the growth in
\* place of the in-flight assistant message; entries are removed only by
\* recover(), which pops the trailing assistant message once, and by reset().
C27_AppendOnly == C27_Loop /\ C27_Calls

\* A session has appended its prompt, an assistant message that grew by two
\* deltas, a follow-up prompt and a second assistant message, in that order.
C27_Witness ==
  /\ Len(loops) = 1 /\ Len(context) = 4
  /\ context[1] = UserMsg("Hi") /\ context[2] = Msg("assistant", 1, "", "")
  /\ context[3].role = "user" /\ context[4] = Msg("assistant", 2, "", "")
  /\ heap[1] = <<ContentPart("text", "Hello")>>
  /\ heap[2] # <<>>

\* C28: folding a tool-result (a tool-error) part appends one tool message
\* to the end of context, tagged "json" ("error-json") and naming the tool
\* call, publishes one tool-result (tool-error) event, leaves the assistant
\* messages and the turn's message pointer as they were, and ends neither
\* the turn nor the session: the loop stays suspended on the rest of the
\* stream and the agent stays as running as it was.
C28_ToolOutput ==
  \A l \in Loops :
    (NextPart(l, "tool-result") \/ NextPart(l, "tool-error")) =>
      LET part == Head(loops[l].stream)
          after == resume(St, l, <<>>)
          ok == part.type = "tool-result"
      IN /\ after.context =
              Append(context, [role |-> "tool", oid |-> 0,
                               text |-> IF ok THEN "json" ELSE "error-json",
                               call |-> part.call])
         /\ Len(after.events[l]) = Len(events[l]) + 1
         /\ IsPrefix(events[l], after.events[l])
         /\ LET e == after.events[l][Len(after.events[l])] IN
            /\ e.type = (IF ok THEN TOOL_RESULT ELSE TOOL_ERROR)
            /\ e.sessionId = l /\ e.turnId = loops[l].turnId
         /\ \A k \in Loops \ {l} : after.events[k] = events[k]
         /\ after.heap = heap
         /\ after.loops[l].turnMessage = loops[l].turnMessage
         /\ after.loops[l].pc = "await"
         /\ after.loops[l].stream = Tail(loops[l].stream)
         /\ after.loops[l].turnId = loops[l].turnId
         /\ after.runningPromise = runningPromise
         /\ after.lastTurnFinishReason = lastTurnFinishReason
         /\ ~Published(after.events[l], SESSION_END) \/ Published(events[l], SESSION_END)

\* A failed tool call has been folded into an error-tagged tool message after
\* the assistant message of its turn, and the parts that followed it in the
\* stream have been folded too: the turn has finished.
C28_Witness ==
  /\ Len(loops) = 1
  /\ context = <<UserMsg("Hi"), Msg("assistant", 1, "", ""), Msg("tool", 0, "error-json", "c2")>>
  /\ heap = <<<<ContentPart("tool-call", "c2")>>>>
  /\ EventTypes(events[1]) =
       <<SESSION_START, TURN_START, TOOL_CALL, TOOL_ERROR, TURN_FINISH>>
  /\ loops[1].pc = "await"

\* The next part of loop l breaks the protocol: a delta with no in-flight
\* message or no part of its kind there, or an end or a finish with no
\* in-flight message.
Violation(l) ==
  /\ loops[l].pc = "await" /\ loops[l].stream # <<>>
  /\ LET part == Head(loops[l].stream)
         m == loops[l].turnMessage
         Has(kind) == m # 0 /\ \E k \in 1..Len(heap[m]) : heap[m][k].type = kind
     IN \/ part.type = "text-delta" /\ ~Has("text")
        \/ part.type = "reasoning-delta" /\ ~Has("reasoning")
        \/ part.type \in {"text-end", "reasoning-end", "finish"} /\ m = 0

\* C29, the fold: folding a part that breaks the protocol publishes nothing,
\* leaves context, the assistant messages and the recorded finish reason as
\* they were, and throws out of the loop; nothing but the loop's own
\* position changes.
C29_Fold ==
  \A l \in Loops :
    Violation(l) =>
      LET after == resume(St, l, <<>>) IN
      /\ after.events = events
      /\ after.context = context /\ after.heap = heap
      /\ after.lastTurnFinishReason = lastTurnFinishReason
      /\ after.currentStage = currentStage
      /\ after.loops[l].pc = "crashed" /\ after.loops[l].error # ""
      /\ after.loops[l].stream = Tail(loops[l].stream)
      /\ \A k \in Loops \ {l} : after.loops[k] = loops[k]
      /\ after.steeringPrompts = steeringPrompts /\ after.followUpPrompts = followUpPrompts
      /\ after.runningPromise = runningPromise

\* C29, the turn: the events of a turn whose fold threw are those of the
\* parts received before the part in question, and stay so; the loop is
\* never resumed, so the parts after it are not folded.
C29_Turn ==
  \A l \in Loops :
    (loops[l].pc = "crashed" /\ ~loops[l].signal.aborted) =>
      /\ Received(l) # <<>>
      /\ TurnEventTypes(l) = PartEvents(SubSeq(Received(l), 1, Len(Received(l)) - 1))
      /\ events[l][Len(events[l])].type # SESSION_END

\* C29: a part that breaks the protocol publishes no event, changes neither
\* context nor the recorded finish reason, and ends the folding of its turn.
C29_ProtocolViolation == C29_Fold /\ C29_Turn

\* A reasoning-delta has arrived while only a text part was open: the loop
\* has thrown, text-start is the last event of the turn, the parts that
\* followed are undelivered and the follow-up prompt is still queued.
C29_Witness ==
  /\ Len(loops) = 1 /\ loops[1].pc = "crashed"
  /\ loops[1].error = "reasoning-delta, but no reasoning found in content"
  /\ EventTypes(events[1]) = <<SESSION_START, TURN_START, TEXT_START>>
  /\ loops[1].stream = <<P("text-start"), Finish("stop")>>
  /\ heap = <<<<ContentPart("text", "")>>>>
  /\ followUpPrompts = <<F1>>

\* C30: folding an error part publishes one turn-error event for the turn,
\* carrying the turn's assistant message if there is one and none otherwise,
\* throws nothing and changes nothing else: the loop stays suspended on its
\* stream.
C30_ErrorPublished ==
  \A l \in Loops :
    NextPart(l, "error") =>
      LET after == resume(St, l, <<>>)
          m == loops[l].turnMessage
      IN /\ after.events[l] =
              Append(events[l],
                     [type |-> TURN_ERROR, sessionId |-> l, turnId |-> loops[l].turnId,
                      message |-> m, startReason |-> Undefined, prompts |-> <<>>,
                      finishReason |-> Undefined, reason |-> Undefined])
         /\ \A k \in Loops \ {l} : after.events[k] = events[k]
         /\ after.loops[l].pc = "await" /\ after.loops[l].error = ""
         /\ after.loops[l].stream = Tail(loops[l].stream)
         /\ after.loops[l].turnMessage = m
         /\ after.context = context /\ after.heap = heap
         /\ after.lastTurnFinishReason = lastTurnFinishReason
         /\ after.currentStage = TURN_ERROR
         /\ after.runningPromise = runningPromise

\* One session has published a turn-error that carries the assistant message
\* of its turn and, for a later turn that failed before any content, a
\* turn-error that carries none; its loop has not thrown.
C30_Witness ==
  /\ Len(loops) = 1 /\ loops[1].pc # "crashed"
  /\ \E i, j \in 1..Len(events[1]) :
       /\ i < j
       /\ events[1][i].type = TURN_ERROR /\ events[1][i].message # 0
       /\ events[1][j].type = TURN_ERROR /\ events[1][j].message = 0
       /\ events[1][j - 1].type = TURN_START

\* C31: while the loop of the session that the latest start() or recover()
\* began is still active, and no public call has been made since, the agent
\* is running that session and the promise waitForIdle() returned for it is
\* not resolved, whatever an earlier loop does on its way out.
C31_LiveSessionOwnsIdleWait ==
  (calls # <<>> /\ IsSessionCall(LastCall)) =>
    LET l == Len(loops) IN
    loops[l].pc = "await" => (runningPromise = l /\ l \notin resolved)

\* C32: when abort() has been called while a steering cancellation was on
\* its way (the checkpoint has cancelled the model call, the abort part has
\* yet to be folded), folding that abort part publishes no turn-steer and
\* takes no steering prompt for a new turn.
C32_AbortWinsOverSteer ==
  (calls # <<>> /\ LastCall.op = "abort" /\ LastCall.val = "void") =>
    \A l \in Loops :
      (NextPart(l, "abort") /\ Head(loops[l].stream).reason = ABORT_REASON_STEER) =>
        LET after == resume(St, l, <<>>) IN
        /\ after.events[l][Len(after.events[l])].type # TURN_STEER
        /\ after.loops[l].pendingPrompts = <<>>
        /\ after.steeringPrompts = steeringPrompts

\* C33: whenever the next part of a loop is an abort part carrying the
\* reserved steering reason, the steering queue is not empty, so that no
\* loop ever throws "abort for steering, but no pending steering prompts".
C33_SteeringQueueAtAbort ==
  \A l \in Loops :
    /\ (NextPart(l, "abort") /\ Head(loops[l].stream).reason = ABORT_REASON_STEER)
         => steeringPrompts # <<>>
    /\ loops[l].error # "abort for steering, but no pending steering prompts"

\* The configuration the next model call would be made with: the loop
\* applies the pending patch before it.
Effective(st) == ApplyProps(st.config, st.pendingProps)

\* C34: an updateProps(patch) made where it applies at once, with an earlier
\* patch pending, leaves every field the pending patch owns and the new one
\* does not in effect for the next model call.
C34_DeferredPatchKept ==
  (~(isRunning(St) /\ currentStage \notin validStages) /\ pendingProps # NoProps) =>
    \A patch \in Patches :
      LET after == updateProps(St, patch) IN
      \A f \in DOMAIN pendingProps :
        (pendingProps[f] # Absent /\ patch[f] = Absent) =>
          Effective(after)[f] = Effective(St)[f]

\* The string prompts a caller hands to start(), steer() and followUp().
StringPrompts == StartPrompts \cup SteerPrompts \cup FollowUpPrompts

\* The number of times prompt has been accepted by start(), steer() or
\* followUp(), and the number of user messages in context that hold it.
Acceptances(prompt) ==
  Cardinality({i \in 1..Len(calls) :
                 /\ calls[i].op \in {"start", "steer", "followUp"}
                 /\ calls[i].val = "true" /\ calls[i].prompt = prompt})

Appearances(prompt) ==
  Cardinality({i \in 1..Len(context) : context[i] = UserMsg(prompt.text)})

\* C35: context holds a prompt no more often than it has been accepted:
\* no batch is appended twice.
C35_AppendedOnce ==
  \A prompt \in StringPrompts : Appearances(prompt) <= Acceptances(prompt)

\* C36: once every loop has ended, with "stop" as the recorded finish reason,
\* both queues empty and no abort() made, recover() returns false and starts
\* no session, whatever context holds after the turn's assistant message.
C36_NothingToRecover ==
  ( /\ ~isRunning(St) /\ ~Aborted
    /\ \A l \in Loops : loops[l].pc = "done"
    /\ lastTurnFinishReason = "stop"
    /\ steeringPrompts = <<>> /\ followUpPrompts = <<>> ) =>
    \A stream \in Streams :
      LET after == recover(St, stream) IN
      Result(after) = "false" /\ SameAgent(after, St)

\* The assistant message of the turn that ended last in the newest session
\* (0 when that turn had made none, or no turn has ended).
IsTurnEnd(e) == e.type \in {TURN_FINISH, TURN_ERROR, TURN_ABORT, TURN_STEER}
LastEndedMessage ==
  IF Loops = {} THEN 0
  ELSE LET es == events[Len(loops)]
           ends == {i \in 1..Len(es) : IsTurnEnd(es[i])}
       IN IF ends = {} THEN 0
          ELSE es[CHOOSE i \in ends : \A j \in ends : j <= i].message

\* C37: when recover() takes its re-generate branch, the message it removes
\* from context is the assistant message the loop made in the turn that
\* ended last, never a message the caller wrote in a prompt.
C37_OwnMessageRemoved ==
  \A stream \in BatchStreams :
    LET after == recover(St, stream) IN
    after.calls[Len(after.calls)].log = "recover, re-generate last turn with current context" =>
      LET last == context[Len(context)] IN
      /\ last.role = "assistant"
      /\ last.oid # 0
      /\ last.oid = LastEndedMessage

\* A reset() has returned true and no start() has returned true since.
ResetStands ==
  \E i \in 1..Len(calls) :
    /\ calls[i].op = "reset" /\ calls[i].val = "true"
    /\ \A j \in (i + 1)..Len(calls) : ~(calls[j].op = "start" /\ calls[j].val = "true")

\* C38: from a reset() that returned true until the next start() that
\* returns true, context and both queues are empty, whatever a loop that
\* was aborted before the reset still does.
C38_ResetStaysEmpty ==
  ResetStands => (context = <<>> /\ steeringPrompts = <<>> /\ followUpPrompts = <<>>)

\* The reasoning, text and tool events.
InsideEvents ==
  {REASONING_START, REASONING_UPDATE, REASONING_END, TEXT_START, TEXT_UPDATE, TEXT_END,
   TOOL_CALL, TOOL_RESULT, TOOL_ERROR}

\* A turn is open before place i of es: the nearest turn-start or
\* terminating event before i is a turn-start.
TurnOpen(es, i) ==
  \E j \in 1..(i - 1) :
    /\ IsTurnStart(es[j])
    /\ \A k \in (j + 1)..(i - 1) : ~IsTurnStart(es[k]) /\ ~IsTurnEnd(es[k])

\* session-start opens the events of a session and session-end closes them.
C39_Session ==
  \A l \in Loops :
    LET es == events[l] IN
    /\ es # <<>> => es[1].type = SESSION_START
    /\ \A i \in 2..Len(es) : es[i].type # SESSION_START
    /\ \A i \in 1..Len(es) : es[i].type = SESSION_END => i = Len(es)
    /\ loops[l].pc # "await" => (es # <<>> /\ es[Len(es)].type = SESSION_END)

\* Turns do not nest, every terminating event and every reasoning, text and
\* tool event has its turn-start, and no turn is open at session-end.
C39_Turns ==
  \A l \in Loops :
    LET es == events[l] IN
    \A i \in 1..Len(es) :
      /\ IsTurnStart(es[i]) => ~TurnOpen(es, i)
      /\ IsTurnEnd(es[i]) => TurnOpen(es, i)
      /\ es[i].type \in InsideEvents => TurnOpen(es, i)
      /\ es[i].type = SESSION_END => ~TurnOpen(es, i)

\* C39: the events of a session are well-bracketed: session-start first,
\* session-end last, every turn-start followed by exactly one terminating
\* event before the next turn-start or session-end, and every reasoning,
\* text and tool event inside a turn.
C39_WellBracketed == C39_Session /\ C39_Turns

====
